---------------------------- MODULE Spec2Model ----------------------------
(***************************************************************************)
(* Lexicon-Nexus: the generation-orchestration layer.                      *)
(*                                                                         *)
(* The model covers services/geminiService.ts (handleGeminiError,          *)
(* geminiRequestWithRetry, generateAncillaryData, generateDeepDive),       *)
(* services/cacheService.ts (get, set, clearAll over sessionStorage),      *)
(* services/settingsService.ts (getApiKey, getActiveModelId) and the       *)
(* settings handlers of components/SettingsModal.tsx.                      *)
(*                                                                         *)
(* Strings are sequences of one-character strings, so that includes(),     *)
(* toLowerCase(), trim(), template literals and the fence regular          *)
(* expression are computed on characters.  A JSON document inside a text   *)
(* is one element of the sequence (a token such as "J_ART_A"): JSON.parse  *)
(* succeeds exactly on a text that is one such token.                      *)
(*                                                                         *)
(* JavaScript runs each piece of code between two awaits without           *)
(* interleaving, so one action is one such piece: from the resumption of   *)
(* an await (or the entry of a handler) up to the next suspension.         *)
(***************************************************************************)
EXTENDS Integers, Sequences, FiniteSets, TLC

(***************************************************************************)
(* String literals of the source, character by character.  The backtick   *)
(* is written "BACKTICK".                                                  *)
(***************************************************************************)
MSG_RATE_LIMIT ==
    <<"A", "P", "I", " ", "r", "a", "t", "e", " ", "l", "i", "m", "i", "t", " ", "e", "x", "c",
    "e", "e", "d", "e", "d", ".", " ", "P", "l", "e", "a", "s", "e", " ", "w", "a", "i", "t",
    " ", "a", " ", "m", "o", "m", "e", "n", "t", " ", "a", "n", "d", " ", "t", "r", "y", " ",
    "a", "g", "a", "i", "n", ".">>

MSG_NO_API_KEY ==
    <<"A", "P", "I", " ", "K", "e", "y", " ", "i", "s", " ", "n", "o", "t", " ", "c", "o", "n",
    "f", "i", "g", "u", "r", "e", "d", ".", " ", "P", "l", "e", "a", "s", "e", " ", "a", "d",
    "d", " ", "i", "t", " ", "i", "n", " ", "t", "h", "e", " ", "s", "e", "t", "t", "i", "n",
    "g", "s", " ", "p", "a", "n", "e", "l", ".">>

MSG_UNKNOWN ==
    <<"A", "n", " ", "u", "n", "k", "n", "o", "w", "n", " ", "e", "r", "r", "o", "r", " ", "o",
    "c", "c", "u", "r", "r", "e", "d", ".">>

MSG_INVALID_ART ==
    <<"I", "n", "v", "a", "l", "i", "d", " ", "o", "r", " ", "e", "m", "p", "t", "y", " ", "A",
    "S", "C", "I", "I", " ", "a", "r", "t", " ", "i", "n", " ", "r", "e", "s", "p", "o", "n",
    "s", "e">>

MARK_RESOURCE_EXHAUSTED ==
    <<"R", "E", "S", "O", "U", "R", "C", "E", "_", "E", "X", "H", "A", "U", "S", "T", "E", "D">>

MARK_CODE_429 ==
    <<"\"", "c", "o", "d", "e", "\"", ":", "4", "2", "9">>

MARK_RATE_LIMIT ==
    <<"r", "a", "t", "e", " ", "l", "i", "m", "i", "t">>

MARK_RETRY ==
    <<"A", "P", "I", " ", "r", "a", "t", "e", " ", "l", "i", "m", "i", "t", " ", "e", "x", "c",
    "e", "e", "d", "e", "d">>

STR_COULD_NOT ==
    <<"C", "o", "u", "l", "d", " ", "n", "o", "t", " ">>

STR_DOT_SPACE ==
    <<".", " ">>

CTX_ANCILLARY ==
    <<"g", "e", "n", "e", "r", "a", "t", "e", " ", "a", "n", "c", "i", "l", "l", "a", "r", "y",
    " ", "d", "a", "t", "a", " ", "f", "o", "r", " ", "\"">>

CTX_DEEPDIVE ==
    <<"g", "e", "n", "e", "r", "a", "t", "e", " ", "d", "e", "e", "p", " ", "d", "i", "v", "e",
    " ", "f", "o", "r", " ", "\"">>

STR_QUOTE ==
    <<"\"">>

KEY_ANCILLARY ==
    <<"a", "n", "c", "i", "l", "l", "a", "r", "y", "_">>

KEY_DEEPDIVE ==
    <<"d", "e", "e", "p", "d", "i", "v", "e", "_">>

KEY_DEFINITION ==
    <<"d", "e", "f", "i", "n", "i", "t", "i", "o", "n", "_">>

STR_UNDERSCORE ==
    <<"_">>

MODEL_FLASH ==
    <<"g", "e", "m", "i", "n", "i", "-", "f", "l", "a", "s", "h", "-", "l", "a", "t", "e", "s",
    "t">>

MODEL_PRO ==
    <<"g", "e", "m", "i", "n", "i", "-", "2", ".", "5", "-", "p", "r", "o">>

MODEL_CUSTOM ==
    <<"c", "u", "s", "t", "o", "m", "-", "m", "o", "d", "e", "l">>

FENCE ==
    <<"BACKTICK", "BACKTICK", "BACKTICK">>

TAG_JSON ==
    <<"j", "s", "o", "n">>

UPPER ==
    <<"A", "B", "C", "D", "E", "F", "G", "H", "I", "J", "K", "L", "M", "N", "O", "P", "Q", "R",
    "S", "T", "U", "V", "W", "X", "Y", "Z">>

LOWER ==
    <<"a", "b", "c", "d", "e", "f", "g", "h", "i", "j", "k", "l", "m", "n", "o", "p", "q", "r",
    "s", "t", "u", "v", "w", "x", "y", "z">>

ERR_FETCH ==
    <<"f", "e", "t", "c", "h", " ", "f", "a", "i", "l", "e", "d">>

ERR_QUOTA ==
    <<"{", "\"", "e", "r", "r", "o", "r", "\"", ":", "{", "\"", "c", "o", "d", "e", "\"", ":",
    "4", "2", "9", ",", "\"", "s", "t", "a", "t", "u", "s", "\"", ":", "\"", "R", "E", "S",
    "O", "U", "R", "C", "E", "_", "E", "X", "H", "A", "U", "S", "T", "E", "D", "\"", "}", "}">>

ERR_CAPS ==
    <<"R", "a", "t", "e", " ", "L", "i", "m", "i", "t", " ", "r", "e", "a", "c", "h", "e", "d">>

ERR_SYNTAX ==
    <<"U", "n", "e", "x", "p", "e", "c", "t", "e", "d", " ", "t", "o", "k", "e", "n", " ", "i",
    "n", " ", "J", "S", "O", "N", ":", " ">>

CTX_CONTENT ==
    <<"g", "e", "n", "e", "r", "a", "t", "e", " ", "c", "o", "n", "t", "e", "n", "t", " ", "f",
    "o", "r", " ", "\"">>

SENTINEL_PREFIX ==
    <<"[", "S", "Y", "S", "T", "E", "M", ":", "R", "E", "T", "R", "Y", "]">>

STR_RETRYING ==
    <<"R", "a", "t", "e", " ", "l", "i", "m", "i", "t", " ", "e", "x", "c", "e", "e", "d", "e",
    "d", ".", " ", "R", "e", "t", "r", "y", "i", "n", "g", " ", "i", "n", " ">>

STR_SECONDS ==
    <<"s", ".", ".", ".">>

DIGITS ==
    <<"0", "1", "2", "3", "4", "5", "6", "7", "8", "9">>

SETTINGS_PREFIX ==
    <<"l", "e", "x", "i", "c", "o", "n", "N", "e", "x", "u", "s", "S", "e", "t", "t", "i", "n",
    "g", "s", "_">>

INITIAL_TOPIC ==
    <<"H", "y", "p", "e", "r", "t", "e", "x", "t">>

TOPIC_20 ==
    <<"Q", "u", "a", "n", "t", "u", "m", " ", "E", "n", "t", "a", "n", "g", "l", "e", "m", "e",
    "n", "t">>

TOPIC_21 ==
    <<"Q", "u", "a", "n", "t", "u", "m", " ", "E", "n", "t", "a", "n", "g", "l", "e", "m", "e",
    "n", "t", "s">>

FILE_NAME ==
    <<"n", "o", "t", "e", "s", ".", "t", "x", "t">>

STR_REACHED ==
    <<"R", "a", "t", "e", " ", "l", "i", "m", "i", "t", " ", "r", "e", "a", "c", "h", "e", "d",
    ".", " ", "R", "e", "t", "r", "y", "i", "n", "g", " ", "i", "n", " ">>

STR_ELLIPSIS ==
    <<".", ".", ".">>

STR_RATE_LIMIT ==
    <<"R", "a", "t", "e", " ", "l", "i", "m", "i", "t">>


(***************************************************************************)
(* String primitives of JavaScript used by the source.                     *)
(***************************************************************************)

\* String.prototype.includes: p occurs in s as a contiguous substring.
Includes(s, p) ==
    \E i \in 1..(Len(s) - Len(p) + 1) : SubSeq(s, i, i + Len(p) - 1) = p

\* One character of String.prototype.toLowerCase (ASCII letters).
ToLowerChar(ch) ==
    IF \E i \in 1..Len(UPPER) : UPPER[i] = ch
    THEN LOWER[CHOOSE i \in 1..Len(UPPER) : UPPER[i] = ch]
    ELSE ch

\* String.prototype.toLowerCase.
ToLowerCase(s) == [i \in 1..Len(s) |-> ToLowerChar(s[i])]

\* The white space that trim() and the white-space class of the regular
\* expression remove.
IsSpace(ch) == ch \in {" ", "\n", "\t", "\r"}

\* String.prototype.trim: drop leading and trailing white space.
Trim(s) ==
    LET keep == {i \in 1..Len(s) : ~IsSpace(s[i])}
    IN  IF keep = {} THEN <<>>
        ELSE LET first == CHOOSE i \in keep : \A j \in keep : i <= j
                 last  == CHOOSE i \in keep : \A j \in keep : j <= i
             IN  SubSeq(s, first, last)

StartsWith(s, p) == Len(s) >= Len(p) /\ SubSeq(s, 1, Len(p)) = p

EndsWith(s, p) == Len(s) >= Len(p) /\ SubSeq(s, Len(s) - Len(p) + 1, Len(s)) = p

(***************************************************************************)
(* JSON.  A document is a token; what the code reads of a parsed value is  *)
(* its truthiness and artData.art.                                         *)
(***************************************************************************)

\* The documents the backend may send: ancillary objects (two regular ones, one
\* whose art is blank, one whose art is the empty string, one whose art is a
\* number, one with a regular art but no concepts and no hotspots), two
\* deep-dive objects, and the JSON literal false.
JsonDocs ==
    {"J_ART_A", "J_ART_B", "J_ART_BLANK", "J_ART_EMPTY", "J_ART_NUMBER", "J_ART_ODD",
     "J_DIVE_A", "J_DIVE_B", "J_FALSE"}

\* parsed.artData?.art of the documents in which it is a string.
ArtOf ==
    [d \in {"J_ART_A", "J_ART_B", "J_ART_BLANK", "J_ART_EMPTY", "J_ART_ODD"} |->
        CASE d = "J_ART_A" -> <<"+", "-", "+">>
          [] d = "J_ART_B" -> <<" ", "o", "\n">>
          [] d = "J_ART_BLANK" -> <<" ", "\n", " ">>
          [] d = "J_ART_EMPTY" -> <<>>
          [] d = "J_ART_ODD" -> <<"*">>]

\* A JSON text of several characters: the string literal whose content is a
\* fence; it parses to the string value J_STR_TICKS.
JSON_TICKS == STR_QUOTE \o FENCE \o STR_QUOTE

\* JavaScript truthiness of a parsed value: objects and non-empty strings are
\* truthy, false is not.
Truthy(v) == v \in (JsonDocs \cup {"J_STR_TICKS"}) \ {"J_FALSE"}

\* JSON.parse succeeds on a text that is exactly one document.
JsonParses(text) == (Len(text) = 1 /\ text[1] \in JsonDocs) \/ text = JSON_TICKS

JsonParse(text) == IF text = JSON_TICKS THEN "J_STR_TICKS" ELSE text[1]

\* JSON.stringify of a parsed value: the text made of its document.
JsonStringify(v) == IF v = "J_STR_TICKS" THEN JSON_TICKS ELSE <<v>>

\* The message of the SyntaxError JSON.parse throws; engines quote the input.
SyntaxErrorMessage(text) == ERR_SYNTAX \o text

(***************************************************************************)
(* services/settingsService.ts                                             *)
(***************************************************************************)

\* config/models.ts: DEFAULT_MODEL_ID = MODELS[0].id
DEFAULT_MODEL_ID == MODEL_FLASH

\* getSetting: the stored value, or the default when the key is absent.
getSetting(store, key, defaultValue) ==
    IF key \in DOMAIN store THEN store[key] ELSE defaultValue

\* getApiKey: the trimmed custom key, else process.env.API_KEY, else null
\* (the empty sequence stands for null: both are falsy in getAiInstance).
getApiKey(store, env) ==
    LET customKey == Trim(getSetting(store, "customApiKey", <<>>))
    IN  IF customKey # <<>> THEN customKey
        ELSE IF env # <<>> THEN env
        ELSE <<>>

\* Faulty variant of getActiveModelId: the custom name is returned even when
\* it is blank.
getActiveModelIdNoFallback(store) ==
    LET selectedModel == getSetting(store, "apiModel", DEFAULT_MODEL_ID)
    IN  IF selectedModel = MODEL_CUSTOM
        THEN Trim(getSetting(store, "customApiModel", <<>>))
        ELSE selectedModel

\* getActiveModelId
getActiveModelId(store) ==
    LET selectedModel == getSetting(store, "apiModel", DEFAULT_MODEL_ID)
    IN  IF selectedModel = MODEL_CUSTOM
        THEN LET customModelName == Trim(getSetting(store, "customApiModel", <<>>))
             IN  IF customModelName # <<>> THEN customModelName ELSE DEFAULT_MODEL_ID
        ELSE selectedModel

(***************************************************************************)
(* services/cacheService.ts over sessionStorage.  The store maps the       *)
(* prefixed keys to JSON texts.                                            *)
(***************************************************************************)

PREFIX == <<"l", "e", "x", "i", "c", "o", "n", "N", "e", "x", "u", "s", "_">>

\* get: null (here: the token "null") when the key is absent or the text does
\* not parse; Storage.getItem itself does not throw.
CacheHas(store, key) == (PREFIX \o key) \in DOMAIN store

\* Faulty variant of get: the stored text is taken as parsed whatever it is.
CacheGetUnchecked(store, key) ==
    IF CacheHas(store, key) THEN JsonParse(store[PREFIX \o key]) ELSE "null"

CacheGet(store, key) ==
    IF CacheHas(store, key) /\ JsonParses(store[PREFIX \o key])
    THEN JsonParse(store[PREFIX \o key])
    ELSE "null"

\* Faulty variant of set: the write is lost.
CacheSetDropped(store, key, value, quotaExceeded) == store

\* Faulty variant of set: an entry that exists is kept.
CacheSetKeepFirst(store, key, value, quotaExceeded) ==
    IF quotaExceeded \/ (PREFIX \o key) \in DOMAIN store THEN store
    ELSE [k \in DOMAIN store \cup {PREFIX \o key} |->
             IF k = PREFIX \o key THEN JsonStringify(value) ELSE store[k]]

\* set: Storage.setItem may throw QuotaExceededError, which set swallows; the
\* store is then left as it was.
CacheSet(store, key, value, quotaExceeded) ==
    IF quotaExceeded THEN store
    ELSE [k \in DOMAIN store \cup {PREFIX \o key} |->
             IF k = PREFIX \o key THEN JsonStringify(value) ELSE store[k]]

\* Faulty variant of clearAll: the underscore of the prefix is not compared.
CacheClearAllShortPrefix(store) ==
    [k \in {x \in DOMAIN store : ~StartsWith(x, SubSeq(PREFIX, 1, Len(PREFIX) - 1))}
        |-> store[k]]

\* clearAll: remove every key that starts with PREFIX.
CacheClearAll(store) ==
    [k \in {x \in DOMAIN store : ~StartsWith(x, PREFIX)} |-> store[k]]

(***************************************************************************)
(* services/geminiService.ts: keys, error classification, retry, repair.   *)
(***************************************************************************)

MAX_RETRIES == 3

INITIAL_BACKOFF_MS == 2000

\* Faulty variant of the ancillary key: the case of the topic is kept.
AncillaryCacheKeyCaseKept(modelId, topic) ==
    KEY_ANCILLARY \o modelId \o STR_UNDERSCORE \o topic

\* Faulty variant of the deep-dive key: the prefix of the ancillary key.
DeepDiveCacheKeyShared(modelId, topic) ==
    KEY_ANCILLARY \o modelId \o STR_UNDERSCORE \o ToLowerCase(topic)

\* `ancillary_${modelId}_${topic.toLowerCase()}`
AncillaryCacheKey(modelId, topic) ==
    KEY_ANCILLARY \o modelId \o STR_UNDERSCORE \o ToLowerCase(topic)

\* `deepdive_${modelId}_${topic.toLowerCase()}`
DeepDiveCacheKey(modelId, topic) ==
    KEY_DEEPDIVE \o modelId \o STR_UNDERSCORE \o ToLowerCase(topic)

\* App.tsx fetchTopicData: `definition_${modelId}_${currentTopic.toLowerCase()}`
DefinitionCacheKey(modelId, topic) ==
    KEY_DEFINITION \o modelId \o STR_UNDERSCORE \o ToLowerCase(topic)

CacheKey(op, modelId, topic) ==
    CASE op = "ancillary" -> AncillaryCacheKey(modelId, topic)
      [] op = "deepdive" -> DeepDiveCacheKey(modelId, topic)
      [] op = "definition" -> DefinitionCacheKey(modelId, topic)

\* The context handed to handleGeminiError by the two operations.
ErrorContext(op, topic) ==
    (IF op = "ancillary" THEN CTX_ANCILLARY ELSE CTX_DEEPDIVE) \o topic \o STR_QUOTE

\* A thrown value: isError says whether it is an instance of Error, text is its
\* message (for an Error) or String(value) (for anything else).
Thrown(isError, text) == [isError |-> isError, text |-> text]

\* handleGeminiError's test of the message for the rate-limit markers.
HasRateLimitMarker(message) ==
    \/ Includes(message, MARK_RESOURCE_EXHAUSTED)
    \/ Includes(message, MARK_CODE_429)
    \/ Includes(message, MARK_RATE_LIMIT)

\* Faulty variant of the classifier: the detail is kept after the rate-limit
\* message.
handleGeminiErrorDetailKept(error, context) ==
    LET message == IF error.isError THEN error.text ELSE MSG_UNKNOWN
    IN  IF HasRateLimitMarker(message)
        THEN [kind |-> "RateLimited", message |-> MSG_RATE_LIMIT \o <<" ">> \o message]
        ELSE [kind |-> "Fatal",
              message |-> STR_COULD_NOT \o context \o STR_DOT_SPACE \o message]

\* handleGeminiError: kind names the branch taken, message is the message of the
\* Error returned.
handleGeminiError(error, context) ==
    LET message == IF error.isError THEN error.text ELSE MSG_UNKNOWN
    IN  IF HasRateLimitMarker(message)
        THEN [kind |-> "RateLimited", message |-> MSG_RATE_LIMIT]
        ELSE [kind |-> "Fatal",
              message |-> STR_COULD_NOT \o context \o STR_DOT_SPACE \o message]

\* Faulty variant of the retry test: any error is retried.
ShouldRetryAnyError(message, attempt) == attempt < MAX_RETRIES - 1

\* Faulty variant of the backoff: the delay does not grow.
BackoffDelayConstant(attempt) == INITIAL_BACKOFF_MS

\* geminiRequestWithRetry: whether the loop sleeps and tries again after the
\* failure of the 0-based attempt.
ShouldRetry(message, attempt) ==
    Includes(message, MARK_RETRY) /\ attempt < MAX_RETRIES - 1

\* INITIAL_BACKOFF_MS * Math.pow(2, attempt)
BackoffDelay(attempt) == INITIAL_BACKOFF_MS * (2 ^ attempt)

\* Faulty variant of the repair: the json tag is left in front of the text.
StripFenceTagKept(text) ==
    LET jsonStr == Trim(text)
        fenced  == Len(jsonStr) >= 2 * Len(FENCE)
                   /\ StartsWith(jsonStr, FENCE) /\ EndsWith(jsonStr, FENCE)
        group   == Trim(SubSeq(jsonStr, Len(FENCE) + 1, Len(jsonStr) - Len(FENCE)))
    IN  IF fenced /\ group # <<>> THEN group ELSE jsonStr

\* The fence repair of both operations: jsonStr after trim() and, when the
\* fence expression matches with a non-empty group, the trimmed group.  The
\* expression asks for three backticks at the start (with an optional json
\* tag) and three at the end; its lazy group is what lies between them without
\* the white space around it.
StripFence(text) ==
    LET jsonStr == Trim(text)
        fenced  == Len(jsonStr) >= 2 * Len(FENCE)
                   /\ StartsWith(jsonStr, FENCE) /\ EndsWith(jsonStr, FENCE)
        from    == IF Len(jsonStr) >= Len(FENCE) + Len(TAG_JSON)
                      /\ SubSeq(jsonStr, Len(FENCE) + 1, Len(FENCE) + Len(TAG_JSON)) = TAG_JSON
                   THEN Len(FENCE) + Len(TAG_JSON) + 1
                   ELSE Len(FENCE) + 1
        group   == Trim(SubSeq(jsonStr, from, Len(jsonStr) - Len(FENCE)))
    IN  IF fenced /\ group # <<>> THEN group ELSE jsonStr

(***************************************************************************)
(* The environment: what the backend may answer, what the user may type.   *)
(***************************************************************************)

\* Topics: two that differ only in letter case, and one whose text is the
\* phrase geminiRequestWithRetry looks for.
TOPIC_AB == <<"A", "b">>

TOPIC_aB == <<"a", "B">>

TOPIC_PHRASE == MARK_RETRY

Topics == {TOPIC_AB, TOPIC_aB, TOPIC_PHRASE}

\* The topics used where two calls overlap: they share one cache key.
CoreTopics == {TOPIC_AB, TOPIC_aB}

Ops == {"ancillary", "deepdive"}

\* response.text of a resolved generateContent.
R_ART_A == <<"J_ART_A">>

R_ART_B_FENCED == FENCE \o TAG_JSON \o <<"\n", "J_ART_B", "\n">> \o FENCE

R_ART_BLANK == <<"J_ART_BLANK">>

R_DIVE_A == <<" ", "J_DIVE_A", "\n">>

R_DIVE_B_FENCED == FENCE \o <<"\n", "J_DIVE_B", "\n">> \o FENCE

R_FALSE == <<"J_FALSE">>

R_GARBAGE == <<"o", "o", "p", "s">>

R_ART_EMPTY == <<"J_ART_EMPTY">>

R_ART_NUMBER == <<"J_ART_NUMBER", "\n">>

R_ART_ODD_FENCED == FENCE \o TAG_JSON \o <<"\n", "J_ART_ODD", "\n">> \o FENCE

\* What a rejected generateContent throws.
E_QUOTA == Thrown(TRUE, ERR_QUOTA)

E_FETCH == Thrown(TRUE, ERR_FETCH)

E_CAPS == Thrown(TRUE, ERR_CAPS)

E_STRING == Thrown(FALSE, MARK_RESOURCE_EXHAUSTED)

AllResponses ==
    {R_ART_A, R_ART_B_FENCED, R_ART_BLANK, R_DIVE_A, R_DIVE_B_FENCED, R_FALSE, R_GARBAGE,
     R_ART_EMPTY, R_ART_NUMBER, R_ART_ODD_FENCED}

AllRejections == {E_QUOTA, E_FETCH, E_CAPS, E_STRING}

\* The answers used where two calls overlap.
CoreResponses == {R_ART_A, R_ART_B_FENCED, R_FALSE}

CoreRejections == {E_QUOTA, E_FETCH}

ModelChoices == {MODEL_PRO, MODEL_CUSTOM}

\* What the user may type as the name of the custom model.
CustomNames == {<<>>, <<" ">>, <<"m", "x">>}

ApiKeys == {<<>>, <<"k", "1">>}

EnvApiKeys == {<<>>, <<"e", "n", "v">>}

\* At most two calls are in flight at a time.
Slots == {1, 2}

\* Bound of the exploration: how many times the settings dialog is used.
MaxSettingsChanges == 1

(***************************************************************************)
(* State.                                                                  *)
(***************************************************************************)
VARIABLES
    localStorage,    \* the persisted settings, without their prefix
    envApiKey,       \* process.env.API_KEY
    sessionStorage,  \* the storage behind cacheService
    calls,           \* the generateAncillaryData / generateDeepDive calls
    changes,         \* how many settings actions were taken
    probe,           \* inputs and results of the pure functions
    stream,          \* the streamDefinition generator and its consumer
    app              \* the state of the App component and its fetches

vars == <<localStorage, envApiKey, sessionStorage, calls, changes, probe, stream, app>>

IdleCall ==
    [pc |-> "idle", op |-> "none", topic |-> <<>>, modelId |-> <<>>, cacheKey |-> <<>>,
     attempt |-> 0, sleepLeft |-> 0, log |-> <<>>, fails |-> <<>>, text |-> <<>>,
     outcome |-> "none", result |-> "null", error |-> <<>>, stored |-> "no",
     doneOrder |-> 0, prior |-> {}, cleared |-> FALSE, sentWith |-> <<>>,
     thinking |-> <<>>, sentTo |-> <<>>]

\* The cache keys of the three operations for two topics under two models.
KeyOps == {"ancillary", "deepdive", "definition"}

NoKeys == [op \in KeyOps |-> <<>>]

NoProbe ==
    [m1 |-> <<>>, m2 |-> <<>>, t1 |-> <<>>, t2 |-> <<>>, computed |-> FALSE,
     k11 |-> NoKeys, k12 |-> NoKeys, k21 |-> NoKeys, k22 |-> NoKeys]

\* deepDiveContent before any deep dive: null.
NoDive == [data |-> "null", topic |-> <<>>]

\* The App component as useState constructs it, before its effects have run.
\* The empty text stands for null; `fetches` are the runs of fetchTopicData and
\* `dives` the runs of handleDeepDive; `late` tells that a run of fetchTopicData
\* was resumed after it had been cancelled; `asks` are the runs of handleSearch
\* in file mode.
NoApp ==
    [mounted |-> FALSE, currentTopic |-> INITIAL_TOPIC, content |-> <<>>,
     isLoading |-> TRUE, error |-> <<>>, asciiArt |-> <<>>, file |-> FALSE,
     reading |-> FALSE, isApiConfigured |-> TRUE, relatedConcepts |-> "none",
     isAncillaryLoading |-> FALSE, ancillaryError |-> <<>>,
     deepDiveContent |-> NoDive, isDeepDiveLoading |-> FALSE, deepDiveError |-> <<>>,
     fetches |-> <<>>, dives |-> <<>>, late |-> FALSE,
     isSettingsOpen |-> FALSE, asks |-> <<>>]

\* streamDefinition not yet called.
IdleStream ==
    [pc |-> "idle", mode |-> "none", topic |-> <<>>, modelId |-> <<>>, apiKey |-> <<>>,
     cacheKey |-> <<>>, attempt |-> 0, sleepLeft |-> 0, sent |-> <<>>, got |-> <<>>,
     yielded |-> <<>>, log |-> <<>>, fails |-> <<>>, accumulated |-> <<>>,
     isCancelled |-> FALSE, outcome |-> "none", error |-> <<>>, stored |-> "no",
     sentWith |-> <<>>]

\* A log entry: what happened, the 1-indexed attempt, the delay in ms.
Event(type, n, delay) == <<type, n, delay>>

Init ==
    /\ localStorage = <<>>
    /\ envApiKey \in EnvApiKeys
    /\ sessionStorage = <<>>
    /\ calls = [c \in Slots |-> IdleCall]
    /\ changes = 0
    /\ probe = NoProbe
    /\ stream = IdleStream
    /\ app = NoApp

(***************************************************************************)
(* geminiRequestWithRetry around the apiCall closures.                     *)
(***************************************************************************)

\* Faulty variant of the catch block: the sleep starts before onRetry is called.
RetryCatchSleepFirst(call, f) ==
    LET failed == [call EXCEPT !.fails = Append(@, f)]
    IN  IF ShouldRetry(f.message, call.attempt)
        THEN LET delay == BackoffDelay(call.attempt)
             IN  [failed EXCEPT
                    !.log = @ \o << Event("sleep", call.attempt + 1, delay),
                                    Event("onRetry", call.attempt + 1, delay) >>,
                    !.pc = "sleeping",
                    !.sleepLeft = delay]
        ELSE [failed EXCEPT !.pc = "done", !.outcome = "thrown", !.error = f.message]

\* Faulty variant of the catch block: a generic error once the attempts are used up.
RetryCatchGenericError(call, f) ==
    LET failed == [call EXCEPT !.fails = Append(@, f)]
    IN  IF ShouldRetry(f.message, call.attempt)
        THEN LET delay == BackoffDelay(call.attempt)
             IN  [failed EXCEPT
                    !.log = @ \o << Event("onRetry", call.attempt + 1, delay),
                                    Event("sleep", call.attempt + 1, delay) >>,
                    !.pc = "sleeping",
                    !.sleepLeft = delay]
        ELSE [failed EXCEPT !.pc = "done", !.outcome = "thrown",
                            !.error = IF call.attempt >= MAX_RETRIES - 1
                                      THEN MSG_UNKNOWN ELSE f.message]

\* Faulty variant of the catch block: the delay doubles in high-quality mode.
RetryCatchByQuality(call, f) ==
    LET failed == [call EXCEPT !.fails = Append(@, f)]
        high   == getSetting(localStorage, "highQualityArt", <<"true">>) = <<"true">>
    IN  IF ShouldRetry(f.message, call.attempt)
        THEN LET delay == IF high THEN 2 * BackoffDelay(call.attempt)
                          ELSE BackoffDelay(call.attempt)
             IN  [failed EXCEPT
                    !.log = @ \o << Event("onRetry", call.attempt + 1, delay),
                                    Event("sleep", call.attempt + 1, delay) >>,
                    !.pc = "sleeping",
                    !.sleepLeft = delay]
        ELSE [failed EXCEPT !.pc = "done", !.outcome = "thrown", !.error = f.message]

\* The catch block of geminiRequestWithRetry for a failure f of requestFn
\* ([kind, message]): onRetry, then the sleep; or the throw.
RetryCatch(call, f) ==
    LET failed == [call EXCEPT !.fails = Append(@, f)]
    IN  IF ShouldRetry(f.message, call.attempt)
        THEN LET delay == BackoffDelay(call.attempt)
             IN  [failed EXCEPT
                    !.log = @ \o << Event("onRetry", call.attempt + 1, delay),
                                    Event("sleep", call.attempt + 1, delay) >>,
                    !.pc = "sleeping",
                    !.sleepLeft = delay]
        ELSE [failed EXCEPT !.pc = "done", !.outcome = "thrown", !.error = f.message]

\* Faulty variant of requestFn: the request goes out without a key.
InvokeNoKeyCheck(call, apiKey) ==
    [call EXCEPT
        !.log = @ \o << Event("invoke", call.attempt + 1, 0),
                        Event("request", call.attempt + 1, 0) >>,
        !.sentWith = Append(@, apiKey),
        !.pc = "pending"]

\* requestFn() up to its first await: getAiInstance throws outside the try of
\* apiCall when no key is configured; otherwise generateContent is issued.
Invoke(call, apiKey) ==
    LET invoked == [call EXCEPT !.log = Append(@, Event("invoke", call.attempt + 1, 0))]
    IN  IF apiKey = <<>>
        THEN RetryCatch(invoked, [kind |-> "Raw", message |-> MSG_NO_API_KEY])
        ELSE [invoked EXCEPT
                !.log = Append(@, Event("request", call.attempt + 1, 0)),
                !.sentWith = Append(@, apiKey),
                !.pc = "pending"]

\* Faulty variant of the validation: the art is not trimmed before the test.
ValidArtUntrimmed(parsed) == parsed \in DOMAIN ArtOf /\ ArtOf[parsed] # <<>>

\* The only hard validation of generateAncillaryData.
ValidArt(parsed) == parsed \in DOMAIN ArtOf /\ Trim(ArtOf[parsed]) # <<>>

\* Faulty variant of the parsing: the art is validated for both operations.
ParseResponseValidateAll(op, text) ==
    LET jsonStr == StripFence(text)
    IN  IF ~JsonParses(jsonStr)
        THEN [ok |-> FALSE, value |-> "null",
              error |-> Thrown(TRUE, SyntaxErrorMessage(jsonStr))]
        ELSE IF ~ValidArt(JsonParse(jsonStr))
        THEN [ok |-> FALSE, value |-> "null", error |-> Thrown(TRUE, MSG_INVALID_ART)]
        ELSE [ok |-> TRUE, value |-> JsonParse(jsonStr), error |-> Thrown(TRUE, <<>>)]

\* Faulty variant of the parsing: the art is never validated.
ParseResponseUnvalidated(op, text) ==
    LET jsonStr == StripFence(text)
    IN  IF ~JsonParses(jsonStr)
        THEN [ok |-> FALSE, value |-> "null",
              error |-> Thrown(TRUE, SyntaxErrorMessage(jsonStr))]
        ELSE [ok |-> TRUE, value |-> JsonParse(jsonStr), error |-> Thrown(TRUE, <<>>)]

\* apiCall after generateContent resolved with `text`: the value to cache and
\* return, or the error thrown inside the try.
ParseResponse(op, text) ==
    LET jsonStr == StripFence(text)
    IN  IF ~JsonParses(jsonStr)
        THEN [ok |-> FALSE, value |-> "null",
              error |-> Thrown(TRUE, SyntaxErrorMessage(jsonStr))]
        ELSE IF op = "ancillary" /\ ~ValidArt(JsonParse(jsonStr))
        THEN [ok |-> FALSE, value |-> "null", error |-> Thrown(TRUE, MSG_INVALID_ART)]
        ELSE [ok |-> TRUE, value |-> JsonParse(jsonStr), error |-> Thrown(TRUE, <<>>)]

\* config.thinkingConfig of the request of an operation under the settings:
\* generateAncillaryData reads 'highQualityArt' (default true) on every attempt,
\* generateDeepDive sends no thinking configuration.
ThinkingConfig(op, store) ==
    IF op # "ancillary" THEN "none"
    ELSE IF getSetting(store, "highQualityArt", <<"true">>) = <<"true">>
    THEN "thought"
    ELSE "thinkingBudget0"

\* Faulty variant of apiCall: the request names the model that is active when
\* the attempt is made.
apiCallActiveModel(call) ==
    LET sent == Invoke(call, getApiKey(localStorage, envApiKey))
    IN  IF sent.pc = "pending"
        THEN [sent EXCEPT !.thinking = Append(@, ThinkingConfig(call.op, localStorage)),
                          !.sentTo = Append(@, getActiveModelId(localStorage))]
        ELSE sent

\* apiCall() up to its first await, with the model and the configuration its
\* request carries.
apiCall(call) ==
    LET sent == Invoke(call, getApiKey(localStorage, envApiKey))
    IN  IF sent.pc = "pending"
        THEN [sent EXCEPT !.thinking = Append(@, ThinkingConfig(call.op, localStorage)),
                          !.sentTo = Append(@, call.modelId)]
        ELSE sent

\* The slot a new call takes: the first idle one.
FreeSlot ==
    LET idle == {c \in Slots : calls[c].pc = "idle"}
    IN  CHOOSE c \in idle : \A d \in idle : c <= d

Finished == {c \in Slots : calls[c].pc = "done"}

\* The calls that had settled, with no cacheService.clearAll() since, when a new
\* call begins.
Unclearing == {d \in Finished : ~calls[d].cleared}

\* The promise of a call settles: remember how many had settled before it.
Settle(call) ==
    IF call.pc = "done"
    THEN [call EXCEPT !.doneOrder = Cardinality(Finished) + 1]
    ELSE call

\* generateAncillaryData(topic, onRetry) / generateDeepDive(topic, onRetry) up to
\* the first await: the cache lookup, and on a miss the first requestFn().
BegunCall(op, topic) ==
    LET modelId  == getActiveModelId(localStorage)
        cacheKey == CacheKey(op, modelId, topic)
        cached   == CacheGet(sessionStorage, cacheKey)
        fresh    == [IdleCall EXCEPT !.op = op, !.topic = topic, !.modelId = modelId,
                                     !.cacheKey = cacheKey, !.prior = Unclearing]
        begun    == IF Truthy(cached)
                    THEN [fresh EXCEPT !.pc = "done", !.outcome = "hit", !.result = cached]
                    ELSE apiCall(fresh)
    IN  Settle(begun)

\* A call of one of the two operations begins in the first idle slot.
StartCall(c, op, topic) ==
    /\ \E s \in Slots : calls[s].pc = "idle"
    /\ c = FreeSlot
    /\ calls' = [calls EXCEPT ![c] = BegunCall(op, topic)]
    /\ UNCHANGED <<localStorage, envApiKey, sessionStorage, changes, probe, stream, app>>

\* generateContent resolves with `text`: repair, parse, validate, then
\* cache.set and return; or handleGeminiError and the catch of the retry loop.
BackendRespond(c, text, quotaExceeded) ==
    /\ calls[c].pc = "pending"
    /\ LET call == [calls[c] EXCEPT !.text = text]
           r    == ParseResponse(call.op, text)
       IN  IF r.ok
           THEN /\ sessionStorage' =
                       CacheSet(sessionStorage, call.cacheKey, r.value, quotaExceeded)
                /\ calls' = [calls EXCEPT ![c] =
                       Settle([call EXCEPT !.pc = "done", !.outcome = "returned",
                                           !.result = r.value,
                                           !.stored = IF quotaExceeded THEN "failed"
                                                      ELSE "yes"])]
           ELSE /\ quotaExceeded = FALSE
                /\ sessionStorage' = sessionStorage
                /\ calls' = [calls EXCEPT ![c] =
                       Settle(RetryCatch(call,
                           handleGeminiError(r.error, ErrorContext(call.op, call.topic))))]
    /\ UNCHANGED <<localStorage, envApiKey, changes, probe, stream, app>>

\* generateContent rejects with `error`.
BackendReject(c, error) ==
    /\ calls[c].pc = "pending"
    /\ calls' = [calls EXCEPT ![c] =
           Settle(RetryCatch(calls[c],
               handleGeminiError(error, ErrorContext(calls[c].op, calls[c].topic))))]
    /\ UNCHANGED <<localStorage, envApiKey, sessionStorage, changes, probe, stream, app>>

\* Time passes up to the next expiry of a backoff timer, of a call or of the
\* stream.
Tick ==
    LET waiting  == {c \in Slots : calls[c].pc = "sleeping" /\ calls[c].sleepLeft > 0}
        swaiting == stream.pc = "sleeping" /\ stream.sleepLeft > 0
        left     == {calls[c].sleepLeft : c \in waiting}
                        \cup (IF swaiting THEN {stream.sleepLeft} ELSE {})
    IN  /\ left # {}
        /\ LET step == CHOOSE d \in left : \A e \in left : d <= e
           IN  /\ calls' = [c \in Slots |->
                               IF c \in waiting
                               THEN [calls[c] EXCEPT !.sleepLeft = @ - step]
                               ELSE calls[c]]
               /\ stream' = IF swaiting
                            THEN [stream EXCEPT !.sleepLeft = @ - step]
                            ELSE stream
        /\ UNCHANGED <<localStorage, envApiKey, sessionStorage, changes, probe, app>>

\* The backoff timer of call c fires: `continue`, attempt++, requestFn() again.
TimerFires(c) ==
    /\ calls[c].pc = "sleeping"
    /\ calls[c].sleepLeft = 0
    /\ LET call  == calls[c]
           woken == [call EXCEPT !.log = Append(@, Event("wake", call.attempt + 1, 0)),
                                 !.attempt = @ + 1]
       IN  calls' = [calls EXCEPT ![c] =
               Settle(apiCall(woken))]
    /\ UNCHANGED <<localStorage, envApiKey, sessionStorage, changes, probe, stream, app>>

(***************************************************************************)
(* components/SettingsModal.tsx                                            *)
(***************************************************************************)

\* setSetting
setSetting(store, key, value) ==
    [k \in DOMAIN store \cup {key} |-> IF k = key THEN value ELSE store[k]]

\* cacheService.clearAll() as remembered by the calls that had finished.
MarkCleared == [c \in Slots |-> IF calls[c].pc = "done"
                                THEN [calls[c] EXCEPT !.cleared = TRUE]
                                ELSE calls[c]]

handleModelChange(newModelId) ==
    /\ changes < MaxSettingsChanges
    /\ localStorage' = setSetting(localStorage, "apiModel", newModelId)
    /\ sessionStorage' = CacheClearAll(sessionStorage)
    /\ calls' = MarkCleared
    /\ changes' = changes + 1
    /\ UNCHANGED <<envApiKey, probe, stream, app>>

handleCustomModelNameChange(newName) ==
    /\ changes < MaxSettingsChanges
    /\ localStorage' = setSetting(localStorage, "customApiModel", newName)
    /\ IF Trim(newName) # <<>>
       THEN /\ sessionStorage' = CacheClearAll(sessionStorage)
            /\ calls' = MarkCleared
       ELSE /\ sessionStorage' = sessionStorage
            /\ calls' = calls
    /\ changes' = changes + 1
    /\ UNCHANGED <<envApiKey, probe, stream, app>>

handleApiKeyChange(newKey) ==
    /\ changes < MaxSettingsChanges
    /\ localStorage' = setSetting(localStorage, "customApiKey", newKey)
    /\ sessionStorage' = CacheClearAll(sessionStorage)
    /\ calls' = MarkCleared
    /\ changes' = changes + 1
    /\ UNCHANGED <<envApiKey, probe, stream, app>>

\* handleToggleChange: the high-quality switch is flipped; the cache is kept.
handleToggleChange(isChecked) ==
    /\ getSetting(localStorage, "highQualityArt", <<"true">>) # isChecked
    /\ localStorage' = setSetting(localStorage, "highQualityArt", isChecked)
    /\ UNCHANGED <<envApiKey, sessionStorage, calls, changes, probe, stream, app>>

handleClearCache ==
    /\ changes < MaxSettingsChanges
    /\ sessionStorage' = CacheClearAll(sessionStorage)
    /\ calls' = MarkCleared
    /\ changes' = changes + 1
    /\ UNCHANGED <<localStorage, envApiKey, probe, stream, app>>

(***************************************************************************)
(* streamDefinition and the loops that consume it: fetchTopicData of       *)
(* App.tsx (topic mode) and handleSearch with an uploaded file (file mode). *)
(* The consumer runs in the same turn as the yield that feeds it, so a     *)
(* chunk is yielded, consumed and the next one requested in one action.    *)
(***************************************************************************)

\* The text of the chunks the backend stream may carry; the empty one stands
\* for a chunk whose text is empty or missing.
Fragments == {<<"H", "y">>, <<"p">>, <<>>}

\* Bound of the exploration: how many chunks one backend stream carries.
MaxFragments == 2

StreamModes == {"topic", "file"}

StreamTopics == {TOPIC_AB, TOPIC_PHRASE}

StreamRejections == {E_QUOTA, E_FETCH}

\* Number.prototype.toString in a template literal, for a natural number.
RECURSIVE NumToStr(_)
NumToStr(n) ==
    IF n < 10 THEN <<DIGITS[n + 1]>>
    ELSE NumToStr(n \div 10) \o <<DIGITS[(n % 10) + 1]>>

\* Math.round(delay / 1000)
RoundSeconds(delay) == (delay + 500) \div 1000

\* `[SYSTEM:RETRY]Rate limit exceeded. Retrying in ${Math.round(delay/1000)}s...`
SentinelChunk(delay) ==
    SENTINEL_PREFIX \o STR_RETRYING \o NumToStr(RoundSeconds(delay)) \o STR_SECONDS

\* `generate content for "${topicOrQuery}"`
StreamContext(topic) == CTX_CONTENT \o topic \o STR_QUOTE

\* The concatenation of a sequence of strings.
RECURSIVE Concat(_)
Concat(chunks) ==
    IF chunks = <<>> THEN <<>>
    ELSE chunks[1] \o Concat(SubSeq(chunks, 2, Len(chunks)))

\* JSON.stringify of a string without characters to escape.
JsonStringifyText(s) == STR_QUOTE \o s \o STR_QUOTE

\* cache.get<string>(key) as fetchTopicData uses it: the stored text, or the
\* empty text for null (both are falsy).
CachedDefinition(store, key) ==
    IF CacheHas(store, key)
       /\ Len(store[PREFIX \o key]) >= 2
       /\ StartsWith(store[PREFIX \o key], STR_QUOTE)
       /\ EndsWith(store[PREFIX \o key], STR_QUOTE)
    THEN SubSeq(store[PREFIX \o key], 2, Len(store[PREFIX \o key]) - 1)
    ELSE <<>>

\* cache.set(key, text) for a string.
CacheSetText(store, key, text, quotaExceeded) ==
    IF quotaExceeded THEN store
    ELSE [k \in DOMAIN store \cup {PREFIX \o key} |->
             IF k = PREFIX \o key THEN JsonStringifyText(text) ELSE store[k]]

\* The body of the consumer's loop for one chunk.  fetchTopicData returns when
\* the fetch was cancelled, which closes the generator; a sentinel chunk is
\* shown as a status, any other chunk is appended to accumulatedContent.
Consume(s, chunk) ==
    LET seen == [s EXCEPT !.yielded = Append(@, chunk)]
    IN  IF s.mode = "topic" /\ s.isCancelled
        THEN [seen EXCEPT !.pc = "closed", !.outcome = "cancelled"]
        ELSE IF StartsWith(chunk, SENTINEL_PREFIX)
        THEN seen
        ELSE [seen EXCEPT !.accumulated = @ \o chunk]

\* Faulty variant of the loop over the response: empty chunks are yielded too.
YieldFragmentUnfiltered(s, f) ==
    Consume([s EXCEPT !.sent = Append(@, f), !.got = Append(@, f)], f)

\* for await (const chunk of response): a chunk of the backend stream arrives;
\* it is yielded when its text is not empty.
YieldFragment(s, f) ==
    LET arrived == [s EXCEPT !.sent = Append(@, f)]
    IN  IF f = <<>>
        THEN arrived
        ELSE Consume([arrived EXCEPT !.got = Append(@, f)], f)

\* Faulty variant of the catch block: the sleep is started before the consumer
\* has asked for the chunk after the sentinel.
OnStreamFailureEagerSleep(s, error) ==
    LET f      == handleGeminiError(error, StreamContext(s.topic))
        failed == [s EXCEPT !.fails = Append(@, f)]
    IN  IF ShouldRetry(f.message, s.attempt)
        THEN LET delay    == BackoffDelay(s.attempt)
                 told     == [failed EXCEPT
                                !.log = @ \o << Event("sentinel", s.attempt + 1, delay),
                                                Event("sleep", s.attempt + 1, delay) >>]
                 consumed == Consume(told, SentinelChunk(delay))
             IN  IF consumed.pc = "closed"
                 THEN consumed
                 ELSE [consumed EXCEPT !.pc = "sleeping", !.sleepLeft = delay]
        ELSE [failed EXCEPT !.pc = "done", !.outcome = "thrown", !.error = f.message]

\* Faulty variant of the catch block: the thrown value is raised as it came.
OnStreamFailureRaw(s, error) ==
    LET f      == handleGeminiError(error, StreamContext(s.topic))
        failed == [s EXCEPT !.fails = Append(@, f)]
    IN  IF ShouldRetry(f.message, s.attempt)
        THEN LET delay    == BackoffDelay(s.attempt)
                 told     == [failed EXCEPT
                                !.log = Append(@, Event("sentinel", s.attempt + 1, delay))]
                 consumed == Consume(told, SentinelChunk(delay))
             IN  IF consumed.pc = "closed"
                 THEN consumed
                 ELSE [consumed EXCEPT
                         !.log = Append(@, Event("sleep", s.attempt + 1, delay)),
                         !.pc = "sleeping",
                         !.sleepLeft = delay]
        ELSE [failed EXCEPT !.pc = "done", !.outcome = "thrown", !.error = error.text]

\* The catch block of streamDefinition for a thrown `error`: classify; when
\* rate limited with attempts left, yield the sentinel and, once the consumer
\* asks for the next chunk, sleep; otherwise throw into the consumer.
OnStreamFailure(s, error) ==
    LET f      == handleGeminiError(error, StreamContext(s.topic))
        failed == [s EXCEPT !.fails = Append(@, f)]
    IN  IF ShouldRetry(f.message, s.attempt)
        THEN LET delay    == BackoffDelay(s.attempt)
                 told     == [failed EXCEPT
                                !.log = Append(@, Event("sentinel", s.attempt + 1, delay))]
                 consumed == Consume(told, SentinelChunk(delay))
             IN  IF consumed.pc = "closed"
                 THEN consumed
                 ELSE [consumed EXCEPT
                         !.log = Append(@, Event("sleep", s.attempt + 1, delay)),
                         !.pc = "sleeping",
                         !.sleepLeft = delay]
        ELSE [failed EXCEPT !.pc = "done", !.outcome = "thrown", !.error = f.message]

\* Faulty variant of the write after the loop: the answer of a file query is
\* stored as well.
DefinitionWriteAnyMode(s, store, quotaExceeded) ==
    IF s.accumulated # <<>>
    THEN CacheSetText(store, s.cacheKey, s.accumulated, quotaExceeded)
    ELSE store

\* What the consumer writes to the cache when its loop has ended normally:
\* fetchTopicData stores a non-empty accumulatedContent, handleSearch nothing.
DefinitionWrite(s, store, quotaExceeded) ==
    IF s.mode = "topic" /\ s.accumulated # <<>>
    THEN CacheSetText(store, s.cacheKey, s.accumulated, quotaExceeded)
    ELSE store

\* Step 2 of fetchTopicData, reached when the fetch is not cancelled and the
\* definition did not fail: generateAncillaryData begins.
ThenAncillary(s) ==
    IF s.mode = "topic" /\ ~s.isCancelled /\ s.outcome \in {"completed", "hit"}
    THEN [calls EXCEPT ![FreeSlot] = BegunCall("ancillary", s.topic)]
    ELSE calls

\* fetchTopicData (topic mode) or handleSearch with a file (file mode) up to the
\* first await: the definition cache in topic mode, then streamDefinition and
\* its first next(), where getAiInstance throws when no key is configured.
StartStream(mode, topic) ==
    /\ stream.pc = "idle"
    /\ \E c \in Slots : calls[c].pc = "idle"
    /\ LET modelId == getActiveModelId(localStorage)
           apiKey  == getApiKey(localStorage, envApiKey)
           key     == IF mode = "topic" THEN DefinitionCacheKey(modelId, topic) ELSE <<>>
           cached  == IF mode = "topic" THEN CachedDefinition(sessionStorage, key) ELSE <<>>
           fresh   == [IdleStream EXCEPT !.mode = mode, !.topic = topic,
                                         !.modelId = modelId, !.cacheKey = key]
           begun   == IF cached # <<>>
                      THEN [fresh EXCEPT !.pc = "done", !.outcome = "hit"]
                      ELSE IF apiKey = <<>>
                      THEN [fresh EXCEPT !.pc = "done", !.outcome = "thrown",
                                         !.error = MSG_NO_API_KEY,
                                         !.fails = << [kind |-> "Raw",
                                                       message |-> MSG_NO_API_KEY] >>]
                      ELSE [fresh EXCEPT !.pc = "requesting", !.apiKey = apiKey,
                                         !.sentWith = << apiKey >>,
                                         !.log = << Event("request", 1, 0) >>]
       IN  /\ stream' = begun
           /\ calls' = ThenAncillary(begun)
    /\ UNCHANGED <<localStorage, envApiKey, sessionStorage, changes, probe, app>>

\* generateContentStream resolves: the generator awaits the first chunk.
StreamOpens ==
    /\ stream.pc = "requesting"
    /\ stream' = [stream EXCEPT !.pc = "streaming", !.sent = <<>>, !.got = <<>>]
    /\ UNCHANGED <<localStorage, envApiKey, sessionStorage, calls, changes, probe, app>>

\* The backend stream delivers a chunk with text f.
StreamChunk(f) ==
    /\ stream.pc = "streaming"
    /\ Len(stream.sent) < MaxFragments
    /\ stream' = YieldFragment(stream, f)
    /\ UNCHANGED <<localStorage, envApiKey, sessionStorage, calls, changes, probe, app>>

\* generateContentStream rejects, or the backend stream breaks off, with `error`.
StreamError(error) ==
    /\ stream.pc \in {"requesting", "streaming"}
    /\ stream' = OnStreamFailure(stream, error)
    /\ UNCHANGED <<localStorage, envApiKey, sessionStorage, calls, changes, probe, app>>

\* The backend stream ends: the generator returns, the loop of the consumer
\* ends, and the consumer goes on to what follows its loop.
StreamEnd(quotaExceeded) ==
    /\ stream.pc = "streaming"
    /\ LET ended == [stream EXCEPT
                        !.pc = "done", !.outcome = "completed",
                        !.stored = IF stream.mode = "topic" /\ stream.accumulated # <<>>
                                   THEN (IF quotaExceeded THEN "failed" ELSE "yes")
                                   ELSE "no"]
       IN  /\ quotaExceeded => ended.stored = "failed"
           /\ stream' = ended
           /\ sessionStorage' = DefinitionWrite(stream, sessionStorage, quotaExceeded)
           /\ calls' = ThenAncillary(ended)
    /\ UNCHANGED <<localStorage, envApiKey, changes, probe, app>>

\* The backoff timer of the stream fires: `continue`, attempt++, and the same
\* client issues the request again.
StreamTimerFires ==
    /\ stream.pc = "sleeping"
    /\ stream.sleepLeft = 0
    /\ stream' = [stream EXCEPT
           !.log = @ \o << Event("wake", stream.attempt + 1, 0),
                           Event("request", stream.attempt + 2, 0) >>,
           !.sentWith = Append(@, stream.apiKey),
           !.attempt = @ + 1,
           !.pc = "requesting"]
    /\ UNCHANGED <<localStorage, envApiKey, sessionStorage, calls, changes, probe, app>>

\* The cleanup of the topic effect: the fetch in progress is cancelled.
CancelFetch ==
    /\ stream.mode = "topic"
    /\ stream.pc \notin {"idle", "done", "closed"}
    /\ ~stream.isCancelled
    /\ stream' = [stream EXCEPT !.isCancelled = TRUE]
    /\ UNCHANGED <<localStorage, envApiKey, sessionStorage, calls, changes, probe, app>>

(***************************************************************************)
(* Specifications.                                                         *)
(***************************************************************************)

\* The orchestrator with overlapping calls and the settings dialog.
Next ==
    \/ \E c \in Slots, op \in Ops, topic \in CoreTopics : StartCall(c, op, topic)
    \/ \E c \in Slots, text \in CoreResponses, q \in BOOLEAN : BackendRespond(c, text, q)
    \/ \E c \in Slots, e \in CoreRejections : BackendReject(c, e)
    \/ Tick
    \/ \E c \in Slots : TimerFires(c)
    \/ \E m \in ModelChoices : handleModelChange(m)
    \/ handleClearCache

Spec == Init /\ [][Next]_vars

\* One call at a time, every answer of the backend.
NextRetry ==
    \/ \E c \in Slots, op \in Ops, topic \in Topics :
           c = 1 /\ StartCall(c, op, topic)
    \/ \E c \in Slots, text \in AllResponses : BackendRespond(c, text, FALSE)
    \/ \E c \in Slots, e \in AllRejections : BackendReject(c, e)
    \/ Tick
    \/ \E c \in Slots : TimerFires(c)
    \/ \E k \in ApiKeys : handleApiKeyChange(k)
    \/ \E m \in ModelChoices : handleModelChange(m)
    \/ \E n \in CustomNames : handleCustomModelNameChange(n)
    \/ handleClearCache

SpecRetry == Init /\ [][NextRetry]_vars

\* The cache-key functions on their own: the inputs are drawn at the start.
KeyModels == {MODEL_FLASH, MODEL_PRO, <<"m">>, <<"m", "_", "x">>}

KeyTopics == {TOPIC_AB, TOPIC_aB, <<"a", "b">>, <<"x", "_", "A", "b">>, <<"A", " ", "b">>}

InitKey ==
    /\ localStorage = <<>>
    /\ envApiKey = <<>>
    /\ sessionStorage = <<>>
    /\ calls = [c \in Slots |-> IdleCall]
    /\ changes = 0
    /\ stream = IdleStream
    /\ app = NoApp
    /\ \E m1 \in KeyModels, m2 \in KeyModels, t1 \in KeyTopics, t2 \in KeyTopics :
           probe = [NoProbe EXCEPT !.m1 = m1, !.m2 = m2, !.t1 = t1, !.t2 = t2]

\* Compute the keys of (m1, t1), (m1, t2), (m2, t1) and (m2, t2) for every
\* operation.
ComputeKeys ==
    /\ ~probe.computed
    /\ probe' = [probe EXCEPT
           !.computed = TRUE,
           !.k11 = [op \in KeyOps |-> CacheKey(op, probe.m1, probe.t1)],
           !.k12 = [op \in KeyOps |-> CacheKey(op, probe.m1, probe.t2)],
           !.k21 = [op \in KeyOps |-> CacheKey(op, probe.m2, probe.t1)],
           !.k22 = [op \in KeyOps |-> CacheKey(op, probe.m2, probe.t2)]]
    /\ UNCHANGED <<localStorage, envApiKey, sessionStorage, calls, changes, stream, app>>

NextKey == ComputeKeys

SpecKey == InitKey /\ [][NextKey]_vars


\* One streamDefinition call and its consumer, every answer of the backend.
NextStream ==
    \/ \E mode \in StreamModes, topic \in StreamTopics : StartStream(mode, topic)
    \/ StreamOpens
    \/ \E f \in Fragments : StreamChunk(f)
    \/ \E e \in StreamRejections : StreamError(e)
    \/ \E q \in BOOLEAN : StreamEnd(q)
    \/ Tick
    \/ StreamTimerFires
    \/ CancelFetch

SpecStream == Init /\ [][NextStream]_vars

\* The response repair on its own: a JSON text and a fence around it are drawn
\* at the start, and both payloads go through the parsing of one operation.
FenceTexts ==
    {<<d>> : d \in JsonDocs} \cup {JSON_TICKS, <<" ", "J_ART_A", "\n">>}

FenceTags == {<<>>, TAG_JSON}

\* The white space between a fence and the text.
FenceGaps == {<<>>, <<"\n">>, <<" ">>, <<" ", "\n">>}

\* The text wrapped in a leading and a trailing fence.
Wrap(text, tag, lead, trail) == FENCE \o tag \o lead \o text \o trail \o FENCE

NoParse == [ok |-> FALSE, value |-> "null", error |-> Thrown(TRUE, <<>>)]

InitFence ==
    /\ localStorage = <<>>
    /\ envApiKey = <<>>
    /\ sessionStorage = <<>>
    /\ calls = [c \in Slots |-> IdleCall]
    /\ changes = 0
    /\ stream = IdleStream
    /\ app = NoApp
    /\ \E text \in FenceTexts, tag \in FenceTags, lead \in FenceGaps,
          trail \in FenceGaps, op \in Ops :
           probe = [text |-> text, tag |-> tag, lead |-> lead, trail |-> trail,
                    op |-> op, computed |-> FALSE, plain |-> NoParse,
                    wrapped |-> NoParse]

\* The lines from response.text to the parsed value, for the text alone and for
\* the text in its fence.
RepairBoth ==
    /\ ~probe.computed
    /\ probe' = [probe EXCEPT
           !.computed = TRUE,
           !.plain = ParseResponse(probe.op, probe.text),
           !.wrapped = ParseResponse(probe.op,
                           Wrap(probe.text, probe.tag, probe.lead, probe.trail))]
    /\ UNCHANGED <<localStorage, envApiKey, sessionStorage, calls, changes, stream, app>>

NextFence == RepairBoth

SpecFence == InitFence /\ [][NextFence]_vars

\* The classifier on its own: a thrown value and a context are drawn at the
\* start; the value is classified, and the error returned is classified again.
ClassifyTexts ==
    {ERR_FETCH, ERR_QUOTA, ERR_CAPS, MARK_RESOURCE_EXHAUSTED, MARK_CODE_429,
     MARK_RATE_LIMIT, MSG_RATE_LIMIT, MSG_UNKNOWN, <<>>}

\* Errors carrying one of the texts as message, and thrown strings.
ClassifyThrown == {Thrown(isError, text) : isError \in BOOLEAN, text \in ClassifyTexts}

ClassifyContexts ==
    {ErrorContext(op, topic) : op \in Ops, topic \in Topics}
        \cup {StreamContext(topic) : topic \in Topics}

NoVerdict == [kind |-> "none", message |-> <<>>]

InitClassify ==
    /\ localStorage = <<>>
    /\ envApiKey = <<>>
    /\ sessionStorage = <<>>
    /\ calls = [c \in Slots |-> IdleCall]
    /\ changes = 0
    /\ stream = IdleStream
    /\ app = NoApp
    /\ \E thrown \in ClassifyThrown, context \in ClassifyContexts :
           probe = [thrown |-> thrown, context |-> context, computed |-> FALSE,
                    first |-> NoVerdict, again |-> NoVerdict]

\* handleGeminiError(thrown, context), and handleGeminiError of what it returned.
Classify ==
    /\ ~probe.computed
    /\ LET first == handleGeminiError(probe.thrown, probe.context)
       IN  probe' = [probe EXCEPT
               !.computed = TRUE,
               !.first = first,
               !.again = handleGeminiError(Thrown(TRUE, first.message), probe.context)]
    /\ UNCHANGED <<localStorage, envApiKey, sessionStorage, calls, changes, stream, app>>

NextClassify == Classify

SpecClassify == InitClassify /\ [][NextClassify]_vars

\* The three operations with and without a credential: the settings of an
\* earlier visit may hold a custom key, which the dialog may remove while a
\* call is in flight.
StoredSettings == {<<>>, setSetting(<<>>, "customApiKey", <<"k", "1">>)}

NoKeyResponses == {R_ART_A, R_FALSE}

InitNoKey ==
    /\ localStorage \in StoredSettings
    /\ envApiKey \in EnvApiKeys
    /\ sessionStorage = <<>>
    /\ calls = [c \in Slots |-> IdleCall]
    /\ changes = 0
    /\ probe = NoProbe
    /\ stream = IdleStream
    /\ app = NoApp

NextNoKey ==
    \/ \E c \in Slots, op \in Ops : StartCall(c, op, TOPIC_AB)
    \/ \E c \in Slots, text \in NoKeyResponses : BackendRespond(c, text, FALSE)
    \/ \E c \in Slots : BackendReject(c, E_FETCH)
    \/ \E k \in ApiKeys : handleApiKeyChange(k)
    \/ StartStream("file", TOPIC_AB)
    \/ StreamOpens
    \/ StreamChunk(<<"p">>)
    \/ StreamError(E_FETCH)
    \/ StreamEnd(FALSE)

SpecNoKey == InitNoKey /\ [][NextNoKey]_vars

\* The settings on their own: what the dialog may have stored is drawn at the
\* start, and the model is resolved from it.
\* No value stored under the key.
ABSENT == <<"(absent)">>

SettingsModels == {ABSENT, MODEL_FLASH, MODEL_PRO, MODEL_CUSTOM}

SettingsNames ==
    {ABSENT, <<>>, <<" ">>, <<" ", "\t">>, <<"m", "x">>, <<" ", "m", " ">>,
     <<"m", " ", "x", " ">>}

\* The switch is stored as the JSON text of a boolean.
SettingsFlags == {ABSENT, <<"true">>, <<"false">>}

\* localStorage after the setSetting calls that stored these values.
SettingsOf(model, name, flag) ==
    LET withModel == IF model = ABSENT THEN <<>>
                     ELSE setSetting(<<>>, "apiModel", model)
        withName  == IF name = ABSENT THEN withModel
                     ELSE setSetting(withModel, "customApiModel", name)
    IN  IF flag = ABSENT THEN withName
        ELSE setSetting(withName, "highQualityArt", flag)

NoModel == [computed |-> FALSE, modelId |-> <<>>]

InitSettings ==
    /\ \E model \in SettingsModels, name \in SettingsNames, flag \in SettingsFlags :
           localStorage = SettingsOf(model, name, flag)
    /\ envApiKey = <<>>
    /\ sessionStorage = <<>>
    /\ calls = [c \in Slots |-> IdleCall]
    /\ changes = 0
    /\ probe = NoModel
    /\ stream = IdleStream
    /\ app = NoApp

\* getActiveModelId()
ResolveModel ==
    /\ ~probe.computed
    /\ probe' = [computed |-> TRUE, modelId |-> getActiveModelId(localStorage)]
    /\ UNCHANGED <<localStorage, envApiKey, sessionStorage, calls, changes, stream, app>>

NextSettings == ResolveModel

SpecSettings == InitSettings /\ [][NextSettings]_vars

\* The cache service on its own, over a storage that other code shares: the
\* entries found in sessionStorage are drawn at the start, and get, set and
\* clearAll are called, each with or without a storage failure.
CacheKeys ==
    {CacheKey("ancillary", MODEL_FLASH, TOPIC_AB), CacheKey("deepdive", MODEL_FLASH, TOPIC_AB)}

CacheValues == {"J_ART_A", "J_FALSE", "J_STR_TICKS"}

\* Entries another visit, or other code of the same origin, may have left: a
\* cache entry, a cache entry whose text is not JSON, and three foreign keys.
FoundEntries ==
    {<<PREFIX \o CacheKey("ancillary", MODEL_FLASH, TOPIC_AB), <<"J_ART_B">> >>,
     <<PREFIX \o CacheKey("deepdive", MODEL_FLASH, TOPIC_AB), R_GARBAGE>>,
     <<SETTINGS_PREFIX \o <<"x">>, <<"J_FALSE">> >>,
     <<SubSeq(PREFIX, 1, Len(PREFIX) - 1), <<"J_ART_A">> >>,
     << <<"o", "t", "h", "e", "r">>, <<"1">> >>}

StorageOf(entries) ==
    [k \in {e[1] : e \in entries} |-> (CHOOSE e \in entries : e[1] = k)[2]]

MaxCacheOps == 2

NoCacheOp == [op |-> "none", key |-> <<>>, value |-> "null", failed |-> FALSE,
              got |-> "null", size |-> 0]

InitCache ==
    /\ localStorage \in StoredSettings
    /\ envApiKey = <<>>
    /\ \E entries \in SUBSET FoundEntries : sessionStorage = StorageOf(entries)
    /\ calls = [c \in Slots |-> IdleCall]
    /\ changes = 0
    /\ probe = [done |-> 0, last |-> NoCacheOp, prev |-> NoCacheOp]
    /\ stream = IdleStream
    /\ app = NoApp

Performed(record) == [done |-> probe.done + 1, last |-> record, prev |-> probe.last]

\* cache.get(key); the read of the storage may throw.
CacheRead(key, readFails) ==
    /\ probe.done < MaxCacheOps
    /\ probe' = Performed([NoCacheOp EXCEPT
           !.op = "get", !.key = key, !.failed = readFails,
           !.got = IF readFails THEN "null" ELSE CacheGet(sessionStorage, key),
           !.size = Cardinality(DOMAIN sessionStorage)])
    /\ UNCHANGED <<localStorage, envApiKey, sessionStorage, calls, changes, stream, app>>

\* cache.set(key, value); the write to the storage may throw.
CacheWrite(key, value, quotaExceeded) ==
    /\ probe.done < MaxCacheOps
    /\ sessionStorage' = CacheSet(sessionStorage, key, value, quotaExceeded)
    /\ probe' = Performed([NoCacheOp EXCEPT
           !.op = "set", !.key = key, !.value = value, !.failed = quotaExceeded,
           !.size = Cardinality(DOMAIN sessionStorage)])
    /\ UNCHANGED <<localStorage, envApiKey, calls, changes, stream, app>>

\* cache.clearAll(); the enumeration of the storage may throw.
CacheWipe(accessFails) ==
    /\ probe.done < MaxCacheOps
    /\ sessionStorage' = IF accessFails THEN sessionStorage
                         ELSE CacheClearAll(sessionStorage)
    /\ probe' = Performed([NoCacheOp EXCEPT
           !.op = "clear", !.failed = accessFails,
           !.size = Cardinality(DOMAIN sessionStorage)])
    /\ UNCHANGED <<localStorage, envApiKey, calls, changes, stream, app>>

NextCache ==
    \/ \E key \in CacheKeys, readFails \in BOOLEAN : CacheRead(key, readFails)
    \/ \E key \in CacheKeys, value \in CacheValues, q \in BOOLEAN : CacheWrite(key, value, q)
    \/ \E accessFails \in BOOLEAN : CacheWipe(accessFails)

SpecCache == InitCache /\ [][NextCache]_vars

\* The three operations while the dialog changes the key: calls and streams
\* that fail, sleep and retry, with the key of an earlier visit, of the
\* environment, or none.
SessionResponses == {R_ART_A, R_GARBAGE}

SessionRejections == {E_QUOTA, E_FETCH}

NextSession ==
    \/ \E op \in Ops : StartCall(1, op, TOPIC_AB)
    \/ \E c \in Slots, text \in SessionResponses : BackendRespond(c, text, FALSE)
    \/ \E c \in Slots, e \in SessionRejections : BackendReject(c, e)
    \/ Tick
    \/ \E c \in Slots : TimerFires(c)
    \/ \E k \in ApiKeys : handleApiKeyChange(k)
    \/ StartStream("file", TOPIC_AB)
    \/ StreamOpens
    \/ StreamChunk(<<"p">>)
    \/ \E e \in SessionRejections : StreamError(e)
    \/ StreamEnd(FALSE)
    \/ StreamTimerFires

SpecSession == InitNoKey /\ [][NextSession]_vars

(***************************************************************************)
(* generateAncillaryData while the user flips the high-quality toggle of   *)
(* the settings dialog.                                                    *)
(***************************************************************************)

QualityFlags == {<<"true">>, <<"false">>}

NextQuality ==
    \/ \E c \in Slots, op \in Ops : StartCall(c, op, TOPIC_AB)
    \/ \E c \in Slots, text \in SessionResponses : BackendRespond(c, text, FALSE)
    \/ \E c \in Slots, e \in SessionRejections : BackendReject(c, e)
    \/ Tick
    \/ \E c \in Slots : TimerFires(c)
    \/ \E isChecked \in QualityFlags : handleToggleChange(isChecked)

SpecQuality == Init /\ [][NextQuality]_vars

(***************************************************************************)
(* The App component: the topic effect with fetchTopicData, handleDeepDive *)
(* and the handlers that change the topic, the file or the API state.  A   *)
(* handler runs with the render and the effects it causes; a continuation  *)
(* of an await runs in the turn that settles its promise.  The service     *)
(* calls appear by what they deliver to the component: chunks, retry       *)
(* notices, results and errors, and their writes to the cache.             *)
(***************************************************************************)

\* Bound of the exploration: how many times fetchTopicData is started.
MaxFetches == 2

\* Bound of the exploration: how many times handleDeepDive is started.
MaxDives == 2

\* The words of the page a user can click.
AppWords == {TOPIC_21}

\* What a user can type into the search bar.
AppQueries == {<<" ">> \o TOPIC_20}

\* UNIQUE_WORDS, of which handleRandom draws one.
UNIQUE_WORDS == {TOPIC_21}

\* The errors the service raises to the component.
AppFailures == {MSG_RATE_LIMIT}

\* The delay the service announces with a retry.
AppDelays == {BackoffDelay(0)}

\* '-'.repeat(n)
RECURSIVE Repeat(_, _)
Repeat(ch, n) == IF n = 0 THEN <<>> ELSE <<ch>> \o Repeat(ch, n - 1)

\* Faulty variant of createFallbackArt: a topic of 20 characters is cut too.
createFallbackArtCutAt20(topic) ==
    LET displayableTopic == IF Len(topic) >= 20
                            THEN SubSeq(topic, 1, 17) \o STR_ELLIPSIS
                            ELSE topic
        paddedTopic  == <<" ">> \o displayableTopic \o <<" ">>
        topBorder    == <<"+">> \o Repeat("-", Len(paddedTopic)) \o <<"+">>
        middle       == <<"|">> \o paddedTopic \o <<"|">>
        bottomBorder == <<"+">> \o Repeat("-", Len(paddedTopic)) \o <<"+">>
    IN  topBorder \o <<"\n">> \o middle \o <<"\n">> \o bottomBorder

\* createFallbackArt(topic).art
createFallbackArt(topic) ==
    LET displayableTopic == IF Len(topic) > 20
                            THEN SubSeq(topic, 1, 17) \o STR_ELLIPSIS
                            ELSE topic
        paddedTopic  == <<" ">> \o displayableTopic \o <<" ">>
        topBorder    == <<"+">> \o Repeat("-", Len(paddedTopic)) \o <<"+">>
        middle       == <<"|">> \o paddedTopic \o <<"|">>
        bottomBorder == <<"+">> \o Repeat("-", Len(paddedTopic)) \o <<"+">>
    IN  topBorder \o <<"\n">> \o middle \o <<"\n">> \o bottomBorder

\* `Rate limit reached. Retrying in ${delay / 1000}s...`
RetryNotice(delay) == STR_REACHED \o NumToStr(delay \div 1000) \o STR_SECONDS

\* A run of fetchTopicData that has just been called.
NewFetch(topic, closureError) ==
    [topic |-> topic, isCancelled |-> FALSE, pc |-> "begun", accumulated |-> <<>>,
     closureError |-> closureError, definitionCacheKey |-> <<>>,
     ancillaryKey |-> <<>>, ancillary |-> "none"]

\* The state fetchTopicData sets for a clean page load.
SetInitialState(a) ==
    [a EXCEPT !.isLoading = TRUE, !.error = <<>>, !.content = <<>>, !.asciiArt = <<>>,
              !.relatedConcepts = "none", !.deepDiveContent = NoDive,
              !.deepDiveError = <<>>, !.isDeepDiveLoading = FALSE,
              !.isAncillaryLoading = TRUE, !.ancillaryError = <<>>]

\* Faulty variant of the continuation: the result is applied though the fetch
\* was cancelled.
OnAncillaryDataUnguarded(a, i, data) ==
    [a EXCEPT !.fetches[i].pc = "ended", !.fetches[i].ancillary = "resolved",
              !.ancillaryError = <<>>,
              !.asciiArt = IF data \in DOMAIN ArtOf THEN ArtOf[data] ELSE <<>>,
              !.relatedConcepts = data,
              !.isAncillaryLoading = FALSE]

\* generateAncillaryData resolved with `data` for fetch i.
OnAncillaryData(a, i, data) ==
    LET ended == [a EXCEPT !.fetches[i].pc = "ended", !.fetches[i].ancillary = "resolved"]
    IN  IF a.fetches[i].isCancelled THEN ended
        ELSE [ended EXCEPT
                !.ancillaryError = <<>>,
                !.asciiArt = IF data \in DOMAIN ArtOf THEN ArtOf[data] ELSE <<>>,
                !.relatedConcepts = data,
                !.isAncillaryLoading = FALSE]

\* generateAncillaryData rejected with an Error of the message for fetch i.
OnAncillaryFailure(a, i, message) ==
    LET ended == [a EXCEPT !.fetches[i].pc = "ended", !.fetches[i].ancillary = "rejected"]
    IN  IF a.fetches[i].isCancelled THEN ended
        ELSE [ended EXCEPT
                !.ancillaryError = message,
                !.asciiArt = createFallbackArt(a.fetches[i].topic),
                !.isAncillaryLoading = FALSE]

\* Step 2 of fetchTopicData: generateAncillaryData is called; it answers from
\* its cache, fails for want of a key, or sends its request.
BeginAncillary(a, i) ==
    LET key    == CacheKey("ancillary", getActiveModelId(localStorage), a.fetches[i].topic)
        cached == CacheGet(sessionStorage, key)
        called == [a EXCEPT !.ancillaryError = <<>>, !.fetches[i].ancillaryKey = key]
    IN  IF Truthy(cached) THEN OnAncillaryData(called, i, cached)
        ELSE IF getApiKey(localStorage, envApiKey) = <<>>
        THEN OnAncillaryFailure(called, i, MSG_NO_API_KEY)
        ELSE [called EXCEPT !.fetches[i].pc = "ancillary",
                            !.fetches[i].ancillary = "pending"]

\* fetchTopicData after step 1, with the error of the definition if it failed.
AfterDefinition(a, i, definitionError) ==
    IF a.fetches[i].isCancelled
    THEN [a EXCEPT !.fetches[i].pc = "ended"]
    ELSE IF definitionError # <<>>
    THEN [a EXCEPT !.isLoading = FALSE, !.isAncillaryLoading = FALSE,
                   !.fetches[i].pc = "ended"]
    ELSE BeginAncillary([a EXCEPT !.isLoading = FALSE], i)

\* The catch of step 1.
OnDefinitionFailure(a, i, message) ==
    IF a.fetches[i].isCancelled
    THEN AfterDefinition(a, i, <<>>)
    ELSE AfterDefinition([a EXCEPT !.error = message], i, message)

\* fetchTopicData() up to its first await.
BeginFetch(a) ==
    LET i       == Len(a.fetches) + 1
        modelId == getActiveModelId(localStorage)
        key     == DefinitionCacheKey(modelId, a.currentTopic)
        cached  == CachedDefinition(sessionStorage, key)
        fetch   == [NewFetch(a.currentTopic, a.error) EXCEPT !.definitionCacheKey = key]
        begun   == [SetInitialState(a) EXCEPT !.fetches = Append(@, fetch)]
    IN  IF cached # <<>>
        THEN AfterDefinition([begun EXCEPT !.content = cached], i, <<>>)
        ELSE IF getApiKey(localStorage, envApiKey) = <<>>
        THEN OnDefinitionFailure(begun, i, MSG_NO_API_KEY)
        ELSE [begun EXCEPT !.fetches[i].pc = "streaming"]

\* The dependencies of the topic effect.
Deps(a) == <<a.currentTopic, a.file, a.isApiConfigured>>

\* The topic effect after a render: when a dependency changed, the cleanup of
\* the last run cancels its fetch, and the effect starts a fetch in topic mode.
RunEffect(before, a) ==
    IF Deps(before) = Deps(a) THEN a
    ELSE LET cleaned == [a EXCEPT !.fetches =
                            [i \in DOMAIN a.fetches |->
                                [a.fetches[i] EXCEPT !.isCancelled = TRUE]]]
         IN  IF cleaned.file \/ cleaned.currentTopic = <<>> \/ ~cleaned.isApiConfigured
             THEN cleaned
             ELSE BeginFetch(cleaned)

\* The locals of a run of fetchTopicData that has returned are gone.
Ended(a) ==
    [a EXCEPT !.fetches =
        [i \in DOMAIN a.fetches |->
            IF a.fetches[i].pc = "ended"
            THEN [a.fetches[i] EXCEPT !.accumulated = <<>>, !.closureError = <<>>,
                                      !.definitionCacheKey = <<>>, !.ancillaryKey = <<>>]
            ELSE a.fetches[i]]]

\* A fetch can still be started within the bound.
CanFetch == Len(app.fetches) < MaxFetches

\* The first effects of the component: checkApiKey, and the topic effect with
\* isApiConfigured as constructed; then the render that checkApiKey caused.
Mount ==
    /\ ~app.mounted
    /\ LET key     == getApiKey(localStorage, envApiKey)
           begun   == BeginFetch([app EXCEPT !.mounted = TRUE])
           checked == [begun EXCEPT !.isApiConfigured = (key # <<>>)]
       IN  app' = Ended(RunEffect(begun, checked))
    /\ UNCHANGED <<localStorage, envApiKey, sessionStorage, calls, changes, probe, stream>>

\* The handler changed the state to `a`: render, effects.
Handled(a) ==
    /\ Deps(a) # Deps(app) => CanFetch
    /\ app' = Ended(RunEffect(app, a))
    /\ UNCHANGED <<localStorage, envApiKey, sessionStorage, calls, changes, probe, stream>>

handleWordClick(word) ==
    /\ app.mounted
    /\ ~(app.isLoading \/ app.file \/ ~app.isApiConfigured)
    /\ Trim(word) # <<>>
    /\ ToLowerCase(Trim(word)) # ToLowerCase(app.currentTopic)
    /\ Handled([app EXCEPT !.currentTopic = Trim(word)])

\* handleSearch in topic mode.
handleSearch(query) ==
    /\ app.mounted
    /\ ~(app.isLoading \/ ~app.isApiConfigured)
    /\ Trim(query) # <<>>
    /\ ~app.file
    /\ ToLowerCase(Trim(query)) # ToLowerCase(app.currentTopic)
    /\ Handled([app EXCEPT !.currentTopic = Trim(query)])

\* handleRandom, drawing `randomWord`, which is never the current topic.
handleRandom(randomWord) ==
    /\ app.mounted
    /\ ~(app.isLoading \/ app.file \/ ~app.isApiConfigured)
    /\ ToLowerCase(randomWord) # ToLowerCase(app.currentTopic)
    /\ Handled([app EXCEPT !.isLoading = TRUE, !.error = <<>>, !.content = <<>>,
                           !.asciiArt = <<>>, !.currentTopic = randomWord])

\* handleFileUpload: the reader starts.
handleFileUpload ==
    /\ app.mounted
    /\ ~app.reading
    /\ ~app.file
    /\ Handled([app EXCEPT !.isLoading = TRUE, !.reading = TRUE])

\* reader.onload
FileLoaded ==
    /\ app.reading
    /\ Handled([app EXCEPT !.reading = FALSE, !.file = TRUE, !.currentTopic = FILE_NAME,
                           !.content = <<>>, !.error = <<>>, !.asciiArt = <<>>,
                           !.relatedConcepts = "none", !.deepDiveContent = NoDive,
                           !.isLoading = FALSE])

handleFileClear ==
    /\ app.file
    /\ Handled([app EXCEPT !.file = FALSE, !.content = <<>>, !.error = <<>>,
                           !.currentTopic = INITIAL_TOPIC])

\* The settings dialog is closed: checkApiKey.
CloseSettings ==
    /\ app.mounted
    /\ LET key == getApiKey(localStorage, envApiKey)
       IN  Handled([app EXCEPT !.isApiConfigured = (key # <<>>),
                               !.isLoading = IF key = <<>> THEN FALSE ELSE @])

\* The deep-dive button is rendered and enabled.
DeepDiveButton ==
    /\ app.isApiConfigured /\ ~app.file
    /\ (app.content # <<>> \/ ~app.isLoading)
    /\ app.error = <<>>
    /\ app.deepDiveContent = NoDive
    /\ ~app.isDeepDiveLoading

\* generateDeepDive resolved with `data` for dive d.
OnDeepDiveData(a, d, data) ==
    [a EXCEPT !.dives[d].pc = "ended",
              !.deepDiveError = <<>>,
              !.deepDiveContent = [data |-> data, topic |-> a.dives[d].topic],
              !.isDeepDiveLoading = FALSE]

\* generateDeepDive rejected with an Error of the message for dive d.
OnDeepDiveFailure(a, d, message) ==
    [a EXCEPT !.dives[d].pc = "ended",
              !.deepDiveError = message,
              !.isDeepDiveLoading = FALSE]

\* handleDeepDive up to its await: generateDeepDive answers from its cache,
\* fails for want of a key, or sends its request.
handleDeepDive ==
    /\ app.mounted
    /\ DeepDiveButton
    /\ Len(app.dives) < MaxDives
    /\ LET d      == Len(app.dives) + 1
           key    == CacheKey("deepdive", getActiveModelId(localStorage), app.currentTopic)
           cached == CacheGet(sessionStorage, key)
           called == [app EXCEPT !.isDeepDiveLoading = TRUE, !.deepDiveError = <<>>,
                                 !.dives = Append(@, [topic |-> app.currentTopic,
                                                      pc |-> "pending", key |-> key])]
       IN  app' = IF Truthy(cached) THEN OnDeepDiveData(called, d, cached)
                  ELSE IF getApiKey(localStorage, envApiKey) = <<>>
                  THEN OnDeepDiveFailure(called, d, MSG_NO_API_KEY)
                  ELSE called
    /\ UNCHANGED <<localStorage, envApiKey, sessionStorage, calls, changes, probe, stream>>

\* The continuation of fetch i ran and left the state `a`.
FetchRan(i, a) ==
    /\ app' = Ended([a EXCEPT !.late = @ \/ app.fetches[i].isCancelled])
    /\ UNCHANGED <<localStorage, envApiKey, calls, changes, probe, stream>>

\* streamDefinition yields a chunk of the definition to fetch i; the
\* definitions explored have one chunk.
DefinitionChunk(i, chunk) ==
    /\ i \in DOMAIN app.fetches
    /\ app.fetches[i].pc = "streaming"
    /\ app.fetches[i].accumulated = <<>>
    /\ LET accumulatedContent == app.fetches[i].accumulated \o chunk
       IN  FetchRan(i,
               IF app.fetches[i].isCancelled
               THEN [app EXCEPT !.fetches[i].pc = "ended"]
               ELSE [app EXCEPT
                       !.error = IF StartsWith(app.fetches[i].closureError, STR_RATE_LIMIT)
                                 THEN <<>> ELSE @,
                       !.fetches[i].accumulated = accumulatedContent,
                       !.content = accumulatedContent])
    /\ sessionStorage' = sessionStorage

\* streamDefinition yields the retry sentinel to fetch i.
DefinitionSentinel(i, delay) ==
    /\ i \in DOMAIN app.fetches
    /\ app.fetches[i].pc = "streaming"
    /\ FetchRan(i,
           IF app.fetches[i].isCancelled
           THEN [app EXCEPT !.fetches[i].pc = "ended"]
           ELSE [app EXCEPT !.error = SubSeq(SentinelChunk(delay),
                                             Len(SENTINEL_PREFIX) + 1,
                                             Len(SentinelChunk(delay)))])
    /\ sessionStorage' = sessionStorage

\* streamDefinition returns: the loop of fetch i ends.
DefinitionEnds(i) ==
    /\ i \in DOMAIN app.fetches
    /\ app.fetches[i].pc = "streaming"
    /\ sessionStorage' =
           IF app.fetches[i].accumulated # <<>>
           THEN CacheSetText(sessionStorage, app.fetches[i].definitionCacheKey,
                             app.fetches[i].accumulated, FALSE)
           ELSE sessionStorage
    /\ FetchRan(i, AfterDefinition(app, i, <<>>))

\* Faulty variant of the catch of step 1: what had accumulated is cached.
DefinitionFailsAndCaches(i, message) ==
    /\ i \in DOMAIN app.fetches
    /\ app.fetches[i].pc = "streaming"
    /\ FetchRan(i, OnDefinitionFailure(app, i, message))
    /\ sessionStorage' =
           IF app.fetches[i].accumulated # <<>>
           THEN CacheSetText(sessionStorage, app.fetches[i].definitionCacheKey,
                             app.fetches[i].accumulated, FALSE)
           ELSE sessionStorage

\* streamDefinition throws in fetch i.
DefinitionFails(i, message) ==
    /\ i \in DOMAIN app.fetches
    /\ app.fetches[i].pc = "streaming"
    /\ FetchRan(i, OnDefinitionFailure(app, i, message))
    /\ sessionStorage' = sessionStorage

\* generateAncillaryData calls onAncillaryRetry in fetch i.
AncillaryRetry(i, delay) ==
    /\ i \in DOMAIN app.fetches
    /\ app.fetches[i].pc = "ancillary"
    /\ FetchRan(i,
           IF app.fetches[i].isCancelled THEN app
           ELSE [app EXCEPT !.ancillaryError = RetryNotice(delay)])
    /\ sessionStorage' = sessionStorage

\* generateAncillaryData stores and returns its result in fetch i.
AncillaryResolves(i, data) ==
    /\ i \in DOMAIN app.fetches
    /\ app.fetches[i].pc = "ancillary"
    /\ sessionStorage' = CacheSet(sessionStorage, app.fetches[i].ancillaryKey, data, FALSE)
    /\ FetchRan(i, OnAncillaryData(app, i, data))

\* generateAncillaryData throws in fetch i.
AncillaryRejects(i, message) ==
    /\ i \in DOMAIN app.fetches
    /\ app.fetches[i].pc = "ancillary"
    /\ FetchRan(i, OnAncillaryFailure(app, i, message))
    /\ sessionStorage' = sessionStorage

\* The continuation of dive d ran and left the state `a`.
DiveRan(d, a) ==
    /\ app' = a
    /\ UNCHANGED <<localStorage, envApiKey, calls, changes, probe, stream>>

\* generateDeepDive calls onDeepDiveRetry in dive d.
DeepDiveRetry(d, delay) ==
    /\ d \in DOMAIN app.dives
    /\ app.dives[d].pc = "pending"
    /\ DiveRan(d, [app EXCEPT !.deepDiveError = RetryNotice(delay)])
    /\ sessionStorage' = sessionStorage

\* generateDeepDive stores and returns its result in dive d.
DeepDiveResolves(d, data) ==
    /\ d \in DOMAIN app.dives
    /\ app.dives[d].pc = "pending"
    /\ sessionStorage' = CacheSet(sessionStorage, app.dives[d].key, data, FALSE)
    /\ DiveRan(d, OnDeepDiveData(app, d, data))

\* generateDeepDive throws in dive d.
DeepDiveRejects(d, message) ==
    /\ d \in DOMAIN app.dives
    /\ app.dives[d].pc = "pending"
    /\ DiveRan(d, OnDeepDiveFailure(app, d, message))
    /\ sessionStorage' = sessionStorage

\* What the service delivers to the runs of fetchTopicData.
FetchDelivery ==
    \/ \E i \in 1..MaxFetches : DefinitionChunk(i, <<"p">>)
    \/ \E i \in 1..MaxFetches, delay \in AppDelays : DefinitionSentinel(i, delay)
    \/ \E i \in 1..MaxFetches : DefinitionEnds(i)
    \/ \E i \in 1..MaxFetches, m \in AppFailures : DefinitionFails(i, m)
    \/ \E i \in 1..MaxFetches, delay \in AppDelays : AncillaryRetry(i, delay)
    \/ \E i \in 1..MaxFetches : AncillaryResolves(i, "J_ART_A")
    \/ \E i \in 1..MaxFetches, m \in AppFailures : AncillaryRejects(i, m)

\* The page in topic and file mode, with the settings dialog, in which the
\* key is changed at most once.
NextApp ==
    \/ Mount
    \/ \E word \in AppWords : handleWordClick(word)
    \/ \E query \in AppQueries : handleSearch(query)
    \/ \E randomWord \in UNIQUE_WORDS : handleRandom(randomWord)
    \/ handleFileUpload
    \/ FileLoaded
    \/ handleFileClear
    \/ \E k \in ApiKeys : changes = 0 /\ handleApiKeyChange(k)
    \/ CloseSettings
    \/ FetchDelivery

SpecApp == Init /\ [][NextApp]_vars

\* The page in topic mode with the deep-dive button.
NextDive ==
    \/ Mount
    \/ \E word \in AppWords : handleWordClick(word)
    \/ FetchDelivery
    \/ handleDeepDive
    \/ \E d \in 1..MaxDives, delay \in AppDelays : DeepDiveRetry(d, delay)
    \/ \E d \in 1..MaxDives : DeepDiveResolves(d, "J_DIVE_A")
    \/ \E d \in 1..MaxDives, m \in AppFailures : DeepDiveRejects(d, m)

SpecDive == Init /\ [][NextDive]_vars

(***************************************************************************)
(* The page as the search bar lets a user operate it: its controls are     *)
(* disabled while the page loads, the X of the uploaded file never is, and *)
(* the page under the open settings dialog takes no clicks.  In file mode  *)
(* handleSearch streams an answer about the file.                          *)
(***************************************************************************)

\* Bound of the exploration: how many times handleSearch is started in file mode.
MaxAsks == 1

\* What a user can ask about the file.
AskQueries == {<<"w", "h", "y", "?">>}

\* isUiDisabled of the search bar, with the isLoading the App passes to it.
isUiDisabled == app.isLoading \/ app.isAncillaryLoading \/ ~app.isApiConfigured

\* The page is rendered and not covered by the settings dialog.
PageOpen == app.mounted /\ ~app.isSettingsOpen

\* The upload button: a file is chosen, handleFileUpload starts the reader.
UploadFile ==
    /\ PageOpen
    /\ ~isUiDisabled
    /\ ~app.reading
    /\ Handled([app EXCEPT !.isLoading = TRUE, !.reading = TRUE])

\* reader.onload; the topic effect that follows starts no fetch.
LoadFile ==
    /\ PageOpen
    /\ app.reading
    /\ app' = Ended(RunEffect(app,
                   [app EXCEPT !.reading = FALSE, !.file = TRUE,
                               !.currentTopic = FILE_NAME, !.content = <<>>,
                               !.error = <<>>, !.asciiArt = <<>>,
                               !.relatedConcepts = "none", !.deepDiveContent = NoDive,
                               !.isLoading = FALSE]))
    /\ UNCHANGED <<localStorage, envApiKey, sessionStorage, calls, changes, probe, stream>>

\* The X of the uploaded file.
ClearFile ==
    /\ PageOpen
    /\ handleFileClear

\* The catch and the finally of handleSearch in file mode, for ask q.
OnAskFailure(a, q, message) ==
    [a EXCEPT !.error = message, !.content = <<>>, !.isLoading = FALSE,
              !.asks[q].pc = "ended", !.asks[q].accumulated = <<>>,
              !.asks[q].closureError = <<>>]

\* The search form submits a question about the file: handleSearch up to its
\* first await.
AskFile(query) ==
    /\ PageOpen
    /\ ~isUiDisabled
    /\ Trim(query) # <<>>
    /\ app.file
    /\ Len(app.asks) < MaxAsks
    /\ LET q     == Len(app.asks) + 1
           begun == [app EXCEPT !.isLoading = TRUE, !.error = <<>>, !.content = <<>>,
                                !.asks = Append(@, [pc |-> "streaming",
                                                    accumulated |-> <<>>,
                                                    closureError |-> app.error])]
       IN  app' = IF getApiKey(localStorage, envApiKey) = <<>>
                  THEN OnAskFailure(begun, q, MSG_NO_API_KEY)
                  ELSE begun
    /\ UNCHANGED <<localStorage, envApiKey, sessionStorage, calls, changes, probe, stream>>

\* The continuation of ask q ran and left the state `a`.
AskRan(q, a) ==
    /\ app' = a
    /\ UNCHANGED <<localStorage, envApiKey, sessionStorage, calls, changes, probe, stream>>

\* streamDefinition yields a chunk of the answer to ask q; the answers
\* explored have one chunk.
AskChunk(q, chunk) ==
    /\ q \in DOMAIN app.asks
    /\ app.asks[q].pc = "streaming"
    /\ app.asks[q].accumulated = <<>>
    /\ LET accumulatedContent == app.asks[q].accumulated \o chunk
       IN  AskRan(q, [app EXCEPT
                        !.error = IF StartsWith(app.asks[q].closureError, STR_RATE_LIMIT)
                                  THEN <<>> ELSE @,
                        !.asks[q].accumulated = accumulatedContent,
                        !.content = accumulatedContent])

\* streamDefinition yields the retry sentinel to ask q.
AskSentinel(q, delay) ==
    /\ q \in DOMAIN app.asks
    /\ app.asks[q].pc = "streaming"
    /\ AskRan(q, [app EXCEPT !.error = SubSeq(SentinelChunk(delay),
                                              Len(SENTINEL_PREFIX) + 1,
                                              Len(SentinelChunk(delay)))])

\* streamDefinition returns: the loop of ask q ends, and the finally runs.
AskEnds(q) ==
    /\ q \in DOMAIN app.asks
    /\ app.asks[q].pc = "streaming"
    /\ AskRan(q, [app EXCEPT !.isLoading = FALSE, !.asks[q].pc = "ended",
                             !.asks[q].accumulated = <<>>,
                             !.asks[q].closureError = <<>>])

\* streamDefinition throws in ask q.
AskFails(q, message) ==
    /\ q \in DOMAIN app.asks
    /\ app.asks[q].pc = "streaming"
    /\ AskRan(q, OnAskFailure(app, q, message))

\* What the service delivers to the runs of handleSearch in file mode.
AskDelivery ==
    \/ \E q \in 1..MaxAsks : AskChunk(q, <<"p">>)
    \/ \E q \in 1..MaxAsks, delay \in AppDelays : AskSentinel(q, delay)
    \/ \E q \in 1..MaxAsks : AskEnds(q)
    \/ \E q \in 1..MaxAsks, m \in AppFailures : AskFails(q, m)

\* The page with the upload button, the X of the file and the questions
\* about the file.
NextFile ==
    \/ Mount
    \/ FetchDelivery
    \/ UploadFile
    \/ LoadFile
    \/ ClearFile
    \/ \E query \in AskQueries : AskFile(query)
    \/ AskDelivery

SpecFile == Init /\ [][NextFile]_vars

(***************************************************************************)
(* Properties of geminiRequestWithRetry.                                   *)
(***************************************************************************)

IsPrefix(s, t) == Len(s) <= Len(t) /\ SubSeq(t, 1, Len(s)) = s

\* How many entries of a log are of one type.
CountOf(log, type) == Cardinality({k \in 1..Len(log) : log[k][1] = type})

\* How many backend requests a call issued.
Requests(call) == CountOf(call.log, "request")

AllRateLimited(call) ==
    \A i \in 1..Len(call.fails) : call.fails[i].kind = "RateLimited"

\* What a call does whose every attempt fails rate-limited.
RateLimitedRun ==
    << Event("invoke", 1, 0), Event("request", 1, 0),
       Event("onRetry", 1, 2000), Event("sleep", 1, 2000), Event("wake", 1, 0),
       Event("invoke", 2, 0), Event("request", 2, 0),
       Event("onRetry", 2, 4000), Event("sleep", 2, 4000), Event("wake", 2, 0),
       Event("invoke", 3, 0), Event("request", 3, 0) >>

\* C1: a call whose every attempt fails with a rate-limit error invokes the
\* operation exactly 3 times and onRetry exactly twice, with (1, 2000) and then
\* (2, 4000), and then throws; until then it is somewhere on that run.
C1_RateLimitedThreeAttempts ==
    \A c \in Slots :
        LET call == calls[c]
        IN  (call.outcome \in {"none", "thrown"} /\ AllRateLimited(call))
            => /\ IsPrefix(call.log, RateLimitedRun)
               /\ call.outcome = "thrown"
                  => /\ call.log = RateLimitedRun
                     /\ Len(call.fails) = 3
                     /\ CountOf(call.log, "invoke") = 3
                     /\ CountOf(call.log, "onRetry") = 2

C1_Witness ==
    \E c \in Slots :
        /\ calls[c].pc = "done"
        /\ calls[c].outcome = "thrown"
        /\ Len(calls[c].fails) = 3
        /\ AllRateLimited(calls[c])

\* C2: when the error the operation throws carries none of the rate-limit
\* markers, the operation is invoked once, onRetry is never invoked, nothing
\* sleeps, and the call throws that very error.
C2_FatalErrorOneAttempt ==
    \A c \in Slots :
        LET call == calls[c]
        IN  (call.fails # <<>> /\ ~HasRateLimitMarker(call.fails[1].message))
            => /\ call.pc = "done"
               /\ call.outcome = "thrown"
               /\ call.error = call.fails[1].message
               /\ Len(call.fails) = 1
               /\ CountOf(call.log, "invoke") = 1
               /\ CountOf(call.log, "onRetry") = 0
               /\ CountOf(call.log, "sleep") = 0
               /\ CountOf(call.log, "wake") = 0

C2_Witness ==
    \E c \in Slots :
        /\ calls[c].outcome = "thrown"
        /\ Len(calls[c].fails) = 1
        /\ calls[c].fails[1].kind = "Fatal"
        /\ ~HasRateLimitMarker(calls[c].fails[1].message)
        /\ Requests(calls[c]) = 1

\* C3: a retry (onRetry, sleep) follows failure n only if handleGeminiError
\* classified that failure as RateLimited and attempts remain; a failure
\* classified Fatal ends the call after its one backend request.
C3_RetryAgreesWithClassifier ==
    \A c \in Slots :
        LET call == calls[c]
        IN  /\ \A k \in 1..Len(call.log) :
                   call.log[k][1] \in {"onRetry", "sleep"}
                   => /\ call.log[k][2] <= Len(call.fails)
                      /\ call.fails[call.log[k][2]].kind = "RateLimited"
                      /\ call.log[k][2] < 3
            /\ \A i \in 1..Len(call.fails) :
                   call.fails[i].kind = "Fatal"
                   => /\ i = Len(call.fails)
                      /\ call.outcome = "thrown"
                      /\ (i = 1 => Requests(call) = 1 /\ CountOf(call.log, "onRetry") = 0)

\* C4, the order of a call's log: onRetry(n, delay) comes once, right before the
\* sleep of the same n and delay, n being the 1-indexed attempt that failed; an
\* attempt after the first follows the end of the sleep before it.
C4_LogOrder ==
    \A c \in Slots :
        LET log == calls[c].log
        IN  /\ \A k \in 1..Len(log) :
                   /\ log[k][1] = "sleep"
                      => k > 1 /\ log[k - 1] = Event("onRetry", log[k][2], log[k][3])
                   /\ log[k][1] = "onRetry"
                      => /\ log[k][2] = CountOf(SubSeq(log, 1, k), "invoke")
                         /\ log[k][2] <= Len(calls[c].fails)
                         /\ k < Len(log)
                         /\ log[k + 1] = Event("sleep", log[k][2], log[k][3])
                         /\ \A j \in 1..Len(log) :
                                (log[j][1] = "onRetry" /\ log[j][2] = log[k][2]) => j = k
                   /\ (log[k][1] = "invoke" /\ log[k][2] > 1)
                      => /\ k > 2
                         /\ log[k - 1] = Event("wake", log[k][2] - 1, 0)
                         /\ log[k - 2][1] = "sleep"
                         /\ log[k - 2][2] = log[k][2] - 1
            /\ calls[c].pc = "sleeping"
               => /\ log # <<>>
                  /\ log[Len(log)][1] = "sleep"
                  /\ calls[c].sleepLeft \in 0..log[Len(log)][3]

\* C4, the steps of a call: the sleep that begins lasts the delay given to
\* onRetry, and a sleeping call goes on only once that time has run out.
C4_Steps ==
    \A c \in Slots :
        /\ (calls[c].pc # "sleeping" /\ calls'[c].pc = "sleeping")
           => LET log == calls'[c].log
              IN  /\ Len(log) >= 2
                  /\ log[Len(log) - 1][1] = "onRetry"
                  /\ calls'[c].sleepLeft = log[Len(log) - 1][3]
        /\ (calls[c].pc = "sleeping" /\ calls'[c].log # calls[c].log)
           => calls[c].sleepLeft = 0

\* C4: for every retry onRetry is invoked exactly once with the 1-indexed
\* attempt and the delay in milliseconds, before the backoff sleep begins, and
\* the next attempt starts only after that sleep has elapsed.
C4_OnRetryBeforeSleep == []C4_LogOrder /\ [][C4_Steps]_vars

C4_Witness ==
    \E c \in Slots :
        /\ CountOf(calls[c].log, "onRetry") = 2
        /\ CountOf(calls[c].log, "invoke") = 3

\* C5: a call ends in one of two ways.  It returns the result of its first
\* successful attempt, every attempt before it having failed and none made
\* after it; or it throws the error of the last attempt made, with no result.
\* Three rate-limited attempts throw the rate-limit message.
C5_ReturnsOrThrowsLast ==
    \A c \in Slots :
        LET call == calls[c]
        IN  /\ call.pc = "done" <=> call.outcome \in {"hit", "returned", "thrown"}
            /\ call.pc # "done" => call.result = "null" /\ call.error = <<>>
            /\ CountOf(call.log, "invoke") <= 3
            /\ call.outcome = "returned"
               => /\ call.error = <<>>
                  /\ ParseResponse(call.op, call.text).ok
                  /\ call.result = ParseResponse(call.op, call.text).value
                  /\ call.log # <<>>
                  /\ call.log[Len(call.log)] = Event("request", Len(call.fails) + 1, 0)
                  /\ CountOf(call.log, "invoke") = Len(call.fails) + 1
            /\ call.outcome = "thrown"
               => /\ call.result = "null"
                  /\ call.fails # <<>>
                  /\ call.error = call.fails[Len(call.fails)].message
                  /\ CountOf(call.log, "invoke") = Len(call.fails)
                  /\ (Len(call.fails) = 3 /\ AllRateLimited(call))
                     => call.error = MSG_RATE_LIMIT

C5_Witness ==
    \E c \in Slots :
        /\ calls[c].outcome = "returned"
        /\ Len(calls[c].fails) = 2
        /\ AllRateLimited(calls[c])

(***************************************************************************)
(* Properties of the cache around generateAncillaryData / generateDeepDive. *)
(***************************************************************************)

\* Call c begins in this step.
Begins(c) == calls[c].pc = "idle" /\ calls'[c].pc # "idle"

\* Call c resolves with a result of the backend in this step.
Resolves(c) == calls[c].pc = "pending" /\ calls'[c].outcome = "returned"

\* Calls c and d ask for the same thing of the same model; the topics may
\* differ in letter case.
SameRequest(c, d) ==
    /\ calls[c].op = calls[d].op
    /\ calls[c].modelId = calls[d].modelId
    /\ ToLowerCase(calls[c].topic) = ToLowerCase(calls[d].topic)

C6_Step ==
    \A c \in Slots :
        (Begins(c) /\ CacheHas(sessionStorage, calls'[c].cacheKey))
        => /\ calls'[c].outcome = "hit"
           /\ JsonStringify(calls'[c].result) = sessionStorage[PREFIX \o calls'[c].cacheKey]
           /\ calls'[c].log = <<>>
           /\ calls'[c].fails = <<>>
           /\ sessionStorage' = sessionStorage

\* C6: a call that begins while the cache holds an entry under its key returns
\* that entry, issues no backend request, does not enter the retry loop and
\* leaves the cache as it was.
C6_CacheFirst == [][C6_Step]_vars

\* C7 as stated: two calls of generateAncillaryData for one topic and model, the
\* second begun after the first settled, no cache-clear at all: at most one
\* backend request in total, the second call being a cache hit.
C7_AtMostOneRequest ==
    \A c \in Slots, d \in Slots :
        (/\ d \in calls[c].prior
         /\ changes = 0
         /\ calls[c].op = "ancillary"
         /\ SameRequest(c, d))
        => /\ Requests(calls[d]) + Requests(calls[c]) <= 1
           /\ calls[c].outcome = "hit"

\* C7: when a call of generateAncillaryData has returned a result that the cache
\* stored, a second call for the same topic (in any letter case) and model, with
\* no cache-clear in between, is a cache hit: it returns that result and issues
\* no backend request.
C7_SecondCallHitsStoredResult ==
    \A c \in Slots, d \in Slots :
        (/\ d \in calls[c].prior
         /\ calls[c].op = "ancillary"
         /\ SameRequest(c, d)
         /\ calls[d].outcome = "returned"
         /\ calls[d].stored = "yes")
        => /\ calls[c].outcome = "hit"
           /\ calls[c].result = calls[d].result
           /\ calls[c].log = <<>>
           /\ Requests(calls[c]) = 0

C7_Witness ==
    \E c \in Slots, d \in Slots :
        /\ d \in calls[c].prior
        /\ calls[c].op = "ancillary"
        /\ SameRequest(c, d)
        /\ calls[c].topic # calls[d].topic
        /\ calls[d].outcome = "returned"
        /\ calls[d].stored = "yes"
        /\ calls[c].outcome = "hit"

C8_StepAsStated ==
    \A c \in Slots :
        Resolves(c)
        => /\ CacheHas(sessionStorage', calls'[c].cacheKey)
           /\ sessionStorage'[PREFIX \o calls'[c].cacheKey] = JsonStringify(calls'[c].result)

\* C8 as stated: whenever a call resolves with a result of the backend, the
\* cache entry of its key holds that result.
C8_ResolvedMeansCached == [][C8_StepAsStated]_vars

C8_Step ==
    \A c \in Slots :
        Resolves(c)
        => LET call == calls'[c]
               r    == ParseResponse(call.op, call.text)
           IN  /\ r.ok
               /\ call.result = r.value
               /\ call.op = "ancillary" => ValidArt(call.result)
               /\ call.stored \in {"yes", "failed"}
               /\ call.stored = "yes"
                  => /\ DOMAIN sessionStorage' =
                            DOMAIN sessionStorage \cup {PREFIX \o call.cacheKey}
                     /\ sessionStorage'[PREFIX \o call.cacheKey] = JsonStringify(call.result)
                     /\ \A k \in DOMAIN sessionStorage :
                            k # PREFIX \o call.cacheKey
                            => sessionStorage'[k] = sessionStorage[k]
               /\ call.stored = "failed" => sessionStorage' = sessionStorage

\* C8: the step in which a call resolves is the step in which the parsed and
\* validated response of its successful attempt is written to the cache: the
\* entry of its key then holds the whole returned result, unless the storage
\* refused the write, in which case the cache is left as it was.
C8_WriteThroughOnResolve == [][C8_Step]_vars

C8_Witness ==
    \E c \in Slots :
        /\ calls[c].outcome = "returned"
        /\ calls[c].stored = "yes"
        /\ calls[c].text # JsonStringify(calls[c].result)
        /\ calls[c].fails # <<>>
        /\ CacheGet(sessionStorage, calls[c].cacheKey) = calls[c].result

\* Call d wrote the entry of call c's key after call c did.
WroteAfter(d, c) ==
    /\ d # c
    /\ calls[d].cacheKey = calls[c].cacheKey
    /\ calls[d].outcome = "returned"
    /\ calls[d].stored = "yes"
    /\ calls[d].doneOrder > calls[c].doneOrder

\* C9: of the calls that wrote the entry of one key, with no cache-clear since,
\* the one that completed last is the one whose result the entry holds.
C9_LastWriteWins ==
    \A c \in Slots :
        (/\ calls[c].outcome = "returned"
         /\ calls[c].stored = "yes"
         /\ ~calls[c].cleared
         /\ ~\E d \in Slots : WroteAfter(d, c))
        => /\ CacheHas(sessionStorage, calls[c].cacheKey)
           /\ sessionStorage[PREFIX \o calls[c].cacheKey] = JsonStringify(calls[c].result)

C9_Witness ==
    \E c \in Slots, d \in Slots :
        /\ WroteAfter(d, c)
        /\ calls[c].outcome = "returned"
        /\ calls[c].stored = "yes"
        /\ c \notin calls[d].prior
        /\ d \notin calls[c].prior
        /\ Requests(calls[c]) >= 1
        /\ Requests(calls[d]) >= 1
        /\ calls[c].result # calls[d].result
        /\ ~calls[c].cleared
        /\ CacheGet(sessionStorage, calls[c].cacheKey) = calls[d].result

(***************************************************************************)
(* Properties of the cache keys.                                           *)
(***************************************************************************)

\* Two characters that are one letter in either case, or the same character.
SameLetter(a, b) ==
    \/ a = b
    \/ \E i \in 1..Len(UPPER) : {a, b} = {UPPER[i], LOWER[i]}

\* Two topics that differ in letter case only.
SameModuloCase(s, t) ==
    /\ Len(s) = Len(t)
    /\ \A i \in 1..Len(s) : SameLetter(s[i], t[i])

\* C10: the key is a function of operation, model id and topic; for one
\* operation and model, topics that differ in letter case only have one key;
\* for one model and topic the keys of the three operations differ pairwise.
C10_KeyFoldsCase ==
    probe.computed
    => /\ \A op \in KeyOps : probe.k11[op] = CacheKey(op, probe.m1, probe.t1)
       /\ probe.m1 = probe.m2 => probe.k21 = probe.k11
       /\ SameModuloCase(probe.t1, probe.t2) => probe.k12 = probe.k11
       /\ \A op1 \in KeyOps, op2 \in KeyOps :
              op1 # op2 => probe.k11[op1] # probe.k11[op2]

C10_Witness ==
    /\ probe.computed
    /\ probe.t1 # probe.t2
    /\ SameModuloCase(probe.t1, probe.t2)
    /\ probe.k12["ancillary"] = probe.k11["ancillary"]
    /\ probe.k11["ancillary"] # probe.k11["deepdive"]

(***************************************************************************)
(* Properties of the settings handlers.                                    *)
(***************************************************************************)

\* The keys of the cache namespace in a store.
CacheKeysOf(store) == {k \in DOMAIN store : StartsWith(k, PREFIX)}

C11_Step ==
    /\ changes' # changes => CacheKeysOf(sessionStorage') = {}
    /\ CacheKeysOf(sessionStorage') # CacheKeysOf(sessionStorage)
       => \/ CacheKeysOf(sessionStorage') = {}
          \/ CacheKeysOf(sessionStorage) \subseteq CacheKeysOf(sessionStorage')

\* C11: right after every change of the model selection, of the custom-model
\* name (whatever the new value), of the API key, and after the clear-cache
\* action, the cache namespace holds no entry; and a step that removes an entry
\* removes them all.
C11_ClearedOnEverySettingsChange == [][C11_Step]_vars

(***************************************************************************)
(* Properties of streamDefinition.                                         *)
(***************************************************************************)

\* The chunks of a sequence whose text is not empty, in order.
NonEmptyOf(chunks) == SelectSeq(chunks, LAMBDA f : f # <<>>)

IsSentinel(chunk) == StartsWith(chunk, SENTINEL_PREFIX)

\* What the consumer observed since the last sentinel.
SinceLastSentinel(yielded) ==
    LET at   == {k \in 1..Len(yielded) : IsSentinel(yielded[k])}
        last == IF at = {} THEN 0 ELSE CHOOSE k \in at : \A j \in at : j <= k
    IN  SubSeq(yielded, last + 1, Len(yielded))

\* C12: in an attempt that does not fail the consumer observes exactly the
\* non-empty fragments of the backend stream, one chunk per fragment, in the
\* order of arrival; empty fragments are skipped; once the stream has ended the
\* concatenation of the chunks is the concatenation of the fragments.
C12_ChunksAreTheFragments ==
    stream.pc \in {"streaming", "done"} /\ stream.outcome \in {"none", "completed"}
    => /\ stream.got = NonEmptyOf(stream.sent)
       /\ SinceLastSentinel(stream.yielded) = stream.got
       /\ Concat(SinceLastSentinel(stream.yielded)) = Concat(stream.sent)

C12_Witness ==
    /\ stream.outcome = "completed"
    /\ Len(stream.sent) = 2
    /\ Len(stream.got) = 2
    /\ stream.got[1] # stream.got[2]
    /\ stream.fails # <<>>

\* C13: a sentinel follows failure n only when that failure was classified
\* RateLimited and n is 1 or 2; it announces 2s, then 4s, and the sleep that
\* follows lasts 2000 ms, then 4000 ms; a Fatal failure, and a third failure,
\* end the call by raising; at most 3 requests and 2 sentinels per call.
C13_SentinelOnlyWhenRateLimited ==
    /\ \A k \in 1..Len(stream.log) :
           LET e == stream.log[k]
           IN  /\ e[1] = "sentinel"
                  => /\ e[2] \in {1, 2}
                     /\ e[2] <= Len(stream.fails)
                     /\ stream.fails[e[2]].kind = "RateLimited"
                     /\ e[3] = IF e[2] = 1 THEN 2000 ELSE 4000
               /\ e[1] = "sleep"
                  => k > 1 /\ stream.log[k - 1] = Event("sentinel", e[2], e[3])
    /\ \A i \in 1..Len(stream.fails) :
           (stream.fails[i].kind # "RateLimited" \/ i = 3)
           => /\ i = Len(stream.fails)
              /\ stream.outcome = "thrown"
              /\ stream.error = stream.fails[i].message
    /\ \A k \in 1..Len(stream.yielded) :
           IsSentinel(stream.yielded[k])
           => stream.yielded[k] \in {SentinelChunk(2000), SentinelChunk(4000)}
    /\ CountOf(stream.log, "request") <= 3
    /\ CountOf(stream.log, "sentinel") <= 2
    /\ Len(SelectSeq(stream.yielded, IsSentinel)) = CountOf(stream.log, "sentinel")

C14_Step ==
    /\ (stream.pc # "closed" /\ stream'.pc = "closed")
       => /\ CountOf(stream'.log, "sleep") = CountOf(stream.log, "sleep")
          /\ CountOf(stream'.log, "request") = CountOf(stream.log, "request")
          /\ Len(stream'.yielded) = Len(stream.yielded) + 1
          /\ stream'.sleepLeft = stream.sleepLeft
    /\ stream.pc = "closed" => stream' = stream

\* C14: when the consumer stops iterating after a chunk, content or sentinel,
\* the call starts no backoff sleep and issues no further backend request, in
\* that step or ever after; nothing is sent to the backend but requests.
C14_StopEndsTheCall == [][C14_Step]_vars

C14_Witness ==
    /\ stream.pc = "closed"
    /\ stream.yielded # <<>>
    /\ IsSentinel(stream.yielded[Len(stream.yielded)])
    /\ CountOf(stream.log, "request") = 1

C15_Step ==
    /\ (stream' # stream /\ stream'.mode = "file") => sessionStorage' = sessionStorage
    /\ (stream' # stream /\ ~(stream.pc = "streaming" /\ stream'.outcome = "completed"))
       => sessionStorage' = sessionStorage

\* C15: no step of the generator changes the cache, the only write being the
\* one of fetchTopicData after its loop; and no step of a file query changes the
\* cache, whatever the chunks, retries and failures.
C15_FileModeNeverCaches == [][C15_Step]_vars

C15_Witness ==
    /\ stream.mode = "file"
    /\ stream.outcome = "completed"
    /\ stream.accumulated # <<>>
    /\ stream.fails # <<>>
    /\ sessionStorage = <<>>

(***************************************************************************)
(* Properties of the response validation and repair.                       *)
(***************************************************************************)

\* artData.art of the parsed document is a string with a character that is not
\* white space.
HasVisibleArt(doc) ==
    /\ doc \in DOMAIN ArtOf
    /\ \E i \in 1..Len(ArtOf[doc]) : ~IsSpace(ArtOf[doc][i])

\* The message a call gives for a payload whose art is missing or blank.
InvalidArtMessage(topic) ==
    STR_COULD_NOT \o ErrorContext("ancillary", topic) \o STR_DOT_SPACE \o MSG_INVALID_ART

C16_Step ==
    \A c \in Slots :
        LET before  == calls[c]
            after   == calls'[c]
            jsonStr == StripFence(after.text)
            doc     == JsonParse(jsonStr)
            slot    == PREFIX \o before.cacheKey
        IN  ( /\ before.pc = "pending"
              /\ before.op = "ancillary"
              /\ after.text # before.text
              /\ JsonParses(jsonStr) )
            => IF HasVisibleArt(doc)
               THEN /\ after.outcome = "returned"
                    /\ after.result = doc
                    /\ after.fails = before.fails
                    /\ IF after.stored = "yes"
                       THEN /\ slot \in DOMAIN sessionStorage'
                            /\ sessionStorage'[slot] = JsonStringify(doc)
                       ELSE sessionStorage' = sessionStorage
               ELSE /\ after.outcome # "returned"
                    /\ sessionStorage' = sessionStorage
                    /\ after.fails = Append(before.fails,
                           [kind |-> "Fatal", message |-> InvalidArtMessage(before.topic)])
                    /\ after.outcome = "thrown" => after.error = InvalidArtMessage(before.topic)
                    /\ ~Includes(before.topic, MARK_RETRY) => after.outcome = "thrown"

C17_FenceIsTransparent == probe.computed => probe.wrapped = probe.plain

C17_Witness ==
    /\ probe.computed
    /\ probe.text = JSON_TICKS
    /\ probe.tag = TAG_JSON
    /\ probe.lead = <<"\n">>
    /\ probe.op = "deepdive"
    /\ probe.wrapped.ok
    /\ probe.wrapped.value = "J_STR_TICKS"

(***************************************************************************)
(* Properties of the error classifier.                                     *)
(***************************************************************************)

\* String(value) of a thrown value: "Error: " and the message for an Error
\* with a message, "Error" for one without, the string itself for a string.
Stringified(thrown) ==
    IF ~thrown.isError THEN thrown.text
    ELSE IF thrown.text = <<>> THEN <<"E", "r", "r", "o", "r">>
    ELSE <<"E", "r", "r", "o", "r", ":", " ">> \o thrown.text

\* The text holds one of the three rate-limit markers, letter case kept.
HoldsMarker(text) ==
    \E marker \in {MARK_RESOURCE_EXHAUSTED, MARK_CODE_429, MARK_RATE_LIMIT} :
        \E i \in 1..(Len(text) - Len(marker) + 1) :
            SubSeq(text, i, i + Len(marker) - 1) = marker

\* C18: a thrown value of any type is classified RateLimited exactly when its
\* stringified form holds 'RESOURCE_EXHAUSTED', '"code":429' or 'rate limit',
\* and Fatal otherwise; the classifier always returns an error.
C18_ClassifiedByStringifiedForm ==
    probe.computed
    => /\ probe.first.kind \in {"RateLimited", "Fatal"}
       /\ probe.first.kind = "RateLimited" <=> HoldsMarker(Stringified(probe.thrown))

\* What the classifier takes as the message of a thrown value: error.message
\* of an Error, and 'An unknown error occurred.' for any other value.
OriginalMessage(thrown) == IF thrown.isError THEN thrown.text ELSE MSG_UNKNOWN

\* C19: the message returned is exactly the fixed rate-limit message when the
\* failure is RateLimited, the detail being dropped, and exactly 'Could not
\* {context}. {original message}' otherwise; classifying a returned rate-limit
\* error again returns the same rate-limit error.
C19_NormalizedMessages ==
    probe.computed
    => /\ probe.first.kind = "RateLimited" => probe.first.message = MSG_RATE_LIMIT
       /\ probe.first.kind = "Fatal"
          => probe.first.message =
                 STR_COULD_NOT \o probe.context \o STR_DOT_SPACE
                     \o OriginalMessage(probe.thrown)
       /\ probe.first.kind = "RateLimited" => probe.again = probe.first

C19_Witness ==
    /\ probe.computed
    /\ probe.thrown = E_QUOTA
    /\ probe.first.kind = "RateLimited"
    /\ probe.again.message = MSG_RATE_LIMIT

(***************************************************************************)
(* Properties of a call made with no credential.                           *)
(***************************************************************************)

\* A call that failed for want of a key: the configure-the-key error, and no
\* request, no onRetry and no sleep behind it.
FailedForNoKey(call) ==
    /\ call.pc = "done"
    /\ call.outcome = "thrown"
    /\ call.error = MSG_NO_API_KEY
    /\ \A k \in 1..Len(call.log) : call.log[k][1] \notin {"request", "onRetry", "sleep"}

\* streamDefinition failed for want of a key at its first next(): nothing was
\* yielded, no request was made and no sleep started.
StreamFailedForNoKey(s) ==
    /\ s.pc = "done"
    /\ s.outcome = "thrown"
    /\ s.error = MSG_NO_API_KEY
    /\ s.yielded = <<>>
    /\ s.log = <<>>

\* The cache holds a value for the key that a call takes as a hit.
HoldsUsable(store, key) ==
    /\ (PREFIX \o key) \in DOMAIN store
    /\ store[PREFIX \o key] # <<"J_FALSE">>

C20_StrictStep ==
    getApiKey(localStorage, envApiKey) = <<>>
    => /\ \A c \in Slots :
              (calls[c].pc = "idle" /\ calls'[c].pc # "idle")
              => FailedForNoKey(calls'[c])
       /\ (stream.pc = "idle" /\ stream'.pc # "idle") => StreamFailedForNoKey(stream')

C20_Step ==
    getApiKey(localStorage, envApiKey) = <<>>
    => /\ \A c \in Slots :
              (calls[c].pc = "idle" /\ calls'[c].pc # "idle")
              => IF HoldsUsable(sessionStorage, calls'[c].cacheKey)
                 THEN /\ calls'[c].pc = "done"
                      /\ calls'[c].outcome = "hit"
                      /\ JsonStringify(calls'[c].result)
                             = sessionStorage[PREFIX \o calls'[c].cacheKey]
                      /\ calls'[c].log = <<>>
                 ELSE FailedForNoKey(calls'[c])
       /\ (stream.pc = "idle" /\ stream'.pc # "idle") => StreamFailedForNoKey(stream')

Stripped(text) ==
    LET inked == {i \in 1..Len(text) : text[i] \notin {" ", "\t", "\n", "\r"}}
    IN  IF inked = {} THEN <<>>
        ELSE SubSeq(text, CHOOSE i \in inked : \A j \in inked : i <= j,
                          CHOOSE i \in inked : \A j \in inked : j <= i)

\* C27: getActiveModelId returns the default model when no model is stored or
\* when 'custom-model' is selected with a name that is blank or missing, the
\* trimmed name when 'custom-model' is selected with a name that is not blank,
\* and the stored selection otherwise; never the empty string.
C27_ModelResolution ==
    probe.computed
    => /\ probe.modelId # <<>>
       /\ probe.modelId =
              IF "apiModel" \notin DOMAIN localStorage
              THEN MODEL_FLASH
              ELSE IF localStorage["apiModel"] # MODEL_CUSTOM
              THEN localStorage["apiModel"]
              ELSE IF "customApiModel" \notin DOMAIN localStorage
                      \/ Stripped(localStorage["customApiModel"]) = <<>>
              THEN MODEL_FLASH
              ELSE Stripped(localStorage["customApiModel"])

C27_Witness ==
    /\ probe.computed
    /\ "apiModel" \in DOMAIN localStorage
    /\ localStorage["apiModel"] = MODEL_CUSTOM
    /\ "customApiModel" \in DOMAIN localStorage
    /\ localStorage["customApiModel"] = <<" ", "\t">>
    /\ probe.modelId = MODEL_FLASH

(***************************************************************************)
(* Properties of the cache service.                                        *)
(***************************************************************************)

\* The storage with the text stored under one key, all else as it was.
WithEntry(store, slot, text) ==
    [k \in DOMAIN store \cup {slot} |-> IF k = slot THEN text ELSE store[k]]

\* The texts JSON.stringify gives for the values the cache is given.
TextOf(value) ==
    IF value = "J_STR_TICKS" THEN <<"\"", "BACKTICK", "BACKTICK", "BACKTICK", "\"">>
    ELSE <<value>>

C25_Step ==
    LET op   == probe'.last
        slot == PREFIX \o op.key
    IN  (probe' # probe)
        => /\ op.op = "get"
              => /\ sessionStorage' = sessionStorage
                 /\ IF op.failed \/ slot \notin DOMAIN sessionStorage
                    THEN op.got = "null"
                    ELSE IF \E v \in CacheValues \cup {"J_ART_B"} :
                                TextOf(v) = sessionStorage[slot]
                    THEN TextOf(op.got) = sessionStorage[slot]
                    ELSE op.got = "null"
           /\ op.op = "set"
              => sessionStorage' = IF op.failed THEN sessionStorage
                                   ELSE WithEntry(sessionStorage, slot, TextOf(op.value))
           /\ (op.op = "get" /\ ~op.failed /\ probe.last.op = "set"
                  /\ ~probe.last.failed /\ probe.last.key = op.key)
              => op.got = probe.last.value

\* C25: get returns null when the key is absent, the stored text is not JSON
\* or the read fails; a set that fails leaves the storage as it was, one that
\* succeeds changes the entry of its key only; and with no failure get(k) right
\* after set(k, v) returns v.
C25_CacheToleratesFailures == [][C25_Step]_vars

C25_Witness ==
    /\ probe.last.op = "get"
    /\ probe.last.got = "J_STR_TICKS"
    /\ probe.prev.op = "set"
    /\ probe.prev.key = probe.last.key
    /\ (PREFIX \o CacheKey("deepdive", MODEL_FLASH, TOPIC_AB)) \in DOMAIN sessionStorage
    /\ sessionStorage[PREFIX \o CacheKey("deepdive", MODEL_FLASH, TOPIC_AB)] = R_GARBAGE

C26_Step ==
    (probe' # probe /\ probe'.last.op = "clear")
    => /\ localStorage' = localStorage
       /\ IF probe'.last.failed THEN sessionStorage' = sessionStorage
          ELSE /\ DOMAIN sessionStorage'
                      = {k \in DOMAIN sessionStorage : ~IsPrefix(PREFIX, k)}
               /\ \A k \in DOMAIN sessionStorage' : sessionStorage'[k] = sessionStorage[k]

\* C26: clearAll removes the entries whose key starts with 'lexiconNexus_' and
\* no other: foreign entries of the same storage, entries under the settings
\* prefix among them, and the persisted settings are as they were.
C26_ClearAllKeepsForeignEntries == [][C26_Step]_vars

C26_Witness ==
    /\ probe.last.op = "clear"
    /\ ~probe.last.failed
    /\ probe.last.size = 5
    /\ Cardinality(DOMAIN sessionStorage) = 3
    /\ (SETTINGS_PREFIX \o <<"x">>) \in DOMAIN sessionStorage
    /\ "customApiKey" \in DOMAIN localStorage

(***************************************************************************)
(* Properties of generateDeepDive.                                         *)
(***************************************************************************)

C22_Step ==
    \A c \in Slots :
        LET before  == calls[c]
            after   == calls'[c]
            jsonStr == StripFence(after.text)
            slot    == PREFIX \o KEY_DEEPDIVE \o before.modelId \o STR_UNDERSCORE
                           \o ToLowerCase(before.topic)
        IN  ( /\ before.pc = "pending"
              /\ before.op = "deepdive"
              /\ after.text # before.text )
            => IF \E v \in JsonDocs \cup {"J_STR_TICKS"} : TextOf(v) = jsonStr
               THEN /\ after.outcome = "returned"
                    /\ TextOf(after.result) = jsonStr
                    /\ after.fails = before.fails
                    /\ IF after.stored = "yes"
                       THEN sessionStorage' = WithEntry(sessionStorage, slot, jsonStr)
                       ELSE sessionStorage' = sessionStorage
               ELSE /\ after.outcome # "returned"
                    /\ sessionStorage' = sessionStorage
                    /\ after.fails = Append(before.fails,
                           [kind |-> "Fatal",
                            message |-> STR_COULD_NOT \o ErrorContext("deepdive", before.topic)
                                            \o STR_DOT_SPACE \o SyntaxErrorMessage(jsonStr)])
                    /\ after.outcome = "thrown" => after.error = after.fails[Len(after.fails)].message
                    /\ ~Includes(before.topic, MARK_RETRY) => after.outcome = "thrown"

C23_Step ==
    LET active == getApiKey(localStorage', envApiKey')
    IN  /\ \A c \in Slots :
               Len(calls'[c].sentWith) > Len(calls[c].sentWith)
               => calls'[c].sentWith[Len(calls'[c].sentWith)] = active
        /\ Len(stream'.sentWith) > Len(stream.sentWith)
           => stream'.sentWith[Len(stream'.sentWith)] = active

\* C23: every backend request of the three operations, each retry included, is
\* sent with the key that is configured when the request is sent, also when the
\* key changed during a backoff sleep.
C23_RequestUsesActiveKey == [][C23_Step]_vars

\* The message is one the classifier returns for the context.
Normalized(message, context) ==
    \/ message = MSG_RATE_LIMIT
    \/ IsPrefix(STR_COULD_NOT \o context \o STR_DOT_SPACE, message)

\* Failure i of the log's owner was announced by an event of the type.
Announced(log, type, i) == \E k \in 1..Len(log) : log[k][1] = type /\ log[k][2] = i

\* Every failure but a raised one was announced and retried, and a raised
\* error is the last failure.
NothingDropped(fails, log, type, outcome, error) ==
    /\ outcome = "thrown" => fails # <<>> /\ error = fails[Len(fails)].message
    /\ \A i \in 1..Len(fails) :
           (i < Len(fails) \/ outcome # "thrown") => Announced(log, type, i)

\* C21 as stated: every error the three operations raise is the rate-limit
\* message or 'Could not {context}. ...', and no failure is dropped.
C21_AllRaisedNormalized ==
    /\ \A c \in Slots :
           /\ calls[c].outcome = "thrown"
              => Normalized(calls[c].error, ErrorContext(calls[c].op, calls[c].topic))
           /\ NothingDropped(calls[c].fails, calls[c].log, "onRetry",
                             calls[c].outcome, calls[c].error)
    /\ stream.outcome = "thrown"
       => Normalized(stream.error, StreamContext(stream.topic))
    /\ NothingDropped(stream.fails, stream.log, "sentinel", stream.outcome, stream.error)

\* C21, amended: every error the three operations raise for a failure of the
\* backend call, of the parsing or of the validation is the rate-limit message
\* or 'Could not {context}. ...'; the error for a missing key is raised as
\* getAiInstance threw it; and no failure is dropped.
C21_RaisedNormalizedOrNoKey ==
    /\ \A c \in Slots :
           /\ calls[c].outcome = "thrown"
              => \/ Normalized(calls[c].error, ErrorContext(calls[c].op, calls[c].topic))
                 \/ /\ calls[c].error = MSG_NO_API_KEY
                    /\ Len(calls[c].sentWith) < Len(calls[c].fails)
           /\ NothingDropped(calls[c].fails, calls[c].log, "onRetry",
                             calls[c].outcome, calls[c].error)
    /\ stream.outcome = "thrown"
       => \/ Normalized(stream.error, StreamContext(stream.topic))
          \/ stream.error = MSG_NO_API_KEY /\ stream.sentWith = <<>>
    /\ NothingDropped(stream.fails, stream.log, "sentinel", stream.outcome, stream.error)

C21_Witness ==
    /\ stream.outcome = "thrown"
    /\ stream.error = MSG_NO_API_KEY
    /\ \E c \in Slots :
           /\ calls[c].outcome = "thrown"
           /\ calls[c].error = MSG_RATE_LIMIT
           /\ Len(calls[c].fails) = 3

\* Two runs of generateAncillaryData for one topic under one model.
SameAncillaryRun(a, b) ==
    /\ a.op = "ancillary" /\ b.op = "ancillary"
    /\ a.topic = b.topic /\ a.modelId = b.modelId

\* Two runs that met the same backend failures and response and stand at the
\* same point made the same attempts with the same delays and came to the same
\* verdict.
SameCourse(a, b) ==
    (a.fails = b.fails /\ a.text = b.text /\ a.pc = b.pc)
    => /\ a.log = b.log
       /\ a.attempt = b.attempt
       /\ a.outcome = b.outcome
       /\ a.result = b.result
       /\ a.error = b.error
       /\ Len(a.thinking) = Len(b.thinking)

C28_Pairs ==
    \A c, d \in Slots :
        SameAncillaryRun(calls[c], calls[d])
        => calls[c].cacheKey = calls[d].cacheKey /\ SameCourse(calls[c], calls[d])

\* The settings with the toggle in the other position.
Flipped(store) ==
    setSetting(store, "highQualityArt",
               IF getSetting(store, "highQualityArt", <<"true">>) = <<"true">>
               THEN <<"false">> ELSE <<"true">>)

C28_Step ==
    \A c \in Slots :
        /\ (calls[c].pc = "idle" /\ calls'[c].pc # "idle")
           => LET key == CacheKey(calls'[c].op, getActiveModelId(Flipped(localStorage)),
                                  calls'[c].topic)
              IN  /\ calls'[c].cacheKey = key
                  /\ calls'[c].outcome = "hit" <=> Truthy(CacheGet(sessionStorage, key))
        /\ Len(calls'[c].thinking) > Len(calls[c].thinking)
           => /\ calls'[c].thinking =
                     Append(calls[c].thinking, ThinkingConfig(calls'[c].op, localStorage))
              /\ calls'[c].sentWith = Append(calls[c].sentWith,
                                             getApiKey(Flipped(localStorage), envApiKey))

\* C28: two runs of generateAncillaryData that differ only in 'highQualityArt'
\* compute the same cache key, take the same hit/miss decision on the same
\* cache, make the same attempts with the same delays and validate alike; the
\* flag decides the thinking configuration of each request and nothing else.
C28_FlagIsPassThrough == [](C28_Pairs) /\ [][C28_Step]_vars

C28_Witness ==
    \E c, d \in Slots :
        /\ SameAncillaryRun(calls[c], calls[d])
        /\ calls[c].pc = "done" /\ calls[d].pc = "done"
        /\ Len(calls[c].fails) = 3
        /\ calls[c].fails = calls[d].fails
        /\ calls[c].thinking = <<"thought", "thought", "thought">>
        /\ calls[d].thinking = <<"thinkingBudget0", "thinkingBudget0", "thinkingBudget0">>

\* The lines of a text.
RECURSIVE SplitLines(_)
SplitLines(text) ==
    IF \A k \in 1..Len(text) : text[k] # "\n" THEN <<text>>
    ELSE LET k == CHOOSE n \in 1..Len(text) :
                      text[n] = "\n" /\ \A m \in 1..(n - 1) : text[m] # "\n"
         IN  <<SubSeq(text, 1, k - 1)>> \o SplitLines(SubSeq(text, k + 1, Len(text)))

\* The art is a box of three lines of equal width around the topic, which is
\* shown in full up to 20 characters and else as 17 characters and '...'.
IsBoxAround(topic, art) ==
    LET lines == SplitLines(art)
        shown == IF Len(topic) <= 20 THEN topic
                 ELSE [k \in 1..20 |-> IF k <= 17 THEN topic[k] ELSE "."]
    IN  /\ Len(lines) = 3
        /\ Len(lines[1]) = Len(lines[2]) /\ Len(lines[3]) = Len(lines[2])
        /\ lines[2] = <<"|", " ">> \o shown \o <<" ", "|">>
        /\ lines[1] = lines[3]
        /\ \A k \in 1..Len(lines[1]) :
               lines[1][k] = IF k \in {1, Len(lines[1])} THEN "+" ELSE "-"

\* generateAncillaryData failed for fetch i in this step.
AncillaryFailedNow(i) ==
    /\ app'.fetches[i].ancillary = "rejected"
    /\ i \in DOMAIN app.fetches => app.fetches[i].ancillary # "rejected"

C24_Step ==
    \A i \in DOMAIN app'.fetches :
        (AncillaryFailedNow(i) /\ ~app'.fetches[i].isCancelled)
        => IsBoxAround(app'.fetches[i].topic, app'.asciiArt)

\* C24: when generateAncillaryData fails for the fetch of the current topic,
\* asciiArt is set to a box of three lines of equal width whose middle line
\* shows the topic in full up to 20 characters and else its first 17
\* characters and '...'.
C24_FallbackArtIsABox == [][C24_Step]_vars

C24_Witness ==
    \E i \in DOMAIN app.fetches :
        /\ app.fetches[i].ancillary = "rejected"
        /\ ~app.fetches[i].isCancelled
        /\ app.fetches[i].topic = TOPIC_21
        /\ app.ancillaryError = MSG_RATE_LIMIT
        /\ Len(app.asciiArt) = 3 * 24 + 2
        /\ IsBoxAround(TOPIC_21, app.asciiArt)

\* What the page shows.
Displayed(a) == [a EXCEPT !.fetches = <<>>, !.dives = <<>>, !.late = FALSE]

\* A fetch that is not cancelled is the last one started, for the current
\* topic in topic mode.
C29_OneLive ==
    \A i \in DOMAIN app.fetches :
        ~app.fetches[i].isCancelled
        => /\ i = Len(app.fetches)
           /\ app.fetches[i].topic = app.currentTopic
           /\ ~app.file
           /\ app.isApiConfigured

\* A step in which a cancelled fetch goes on changes nothing of what is shown.
C29_Step ==
    \A i \in DOMAIN app.fetches :
        (app.fetches[i].isCancelled /\ app'.fetches[i] # app.fetches[i])
        => Displayed(app') = Displayed(app)

\* C29: in topic mode no chunk, error, art or concepts of a fetch that was
\* superseded is applied to what is shown, and at most one fetch is not
\* cancelled: the one for the current topic.
C29_LateResultsIgnored == [](C29_OneLive) /\ [][C29_Step]_vars

C29_Witness ==
    \E i, j \in DOMAIN app.fetches :
        /\ app.fetches[i].isCancelled
        /\ app.late
        /\ app.fetches[i].ancillary = "resolved"
        /\ ~app.fetches[j].isCancelled
        /\ app.fetches[j].pc = "streaming"
        /\ app.fetches[j].topic # app.fetches[i].topic
        /\ app.asciiArt = <<>>
        /\ app.relatedConcepts = "none"

\* C30: the deep-dive content shown belongs to the current topic: the result
\* of a generateDeepDive call made for a previous topic is never stored in
\* deepDiveContent under the new topic.
C30_DeepDiveOfCurrentTopic ==
    app.deepDiveContent # NoDive => app.deepDiveContent.topic = app.currentTopic

\* C36: cache keys are injective: two triples (operation, model id, lowercased
\* topic) that differ in a component never have the same key.
C36_KeysAreInjective ==
    probe.computed
    => \A op1 \in KeyOps, op2 \in KeyOps :
           <<op1, probe.m1, ToLowerCase(probe.t1)>> # <<op2, probe.m2, ToLowerCase(probe.t2)>>
           => probe.k11[op1] # probe.k22[op2]

\* The chunks of a sequence that are not retry sentinels.
RECURSIVE ContentChunks(_)
ContentChunks(chunks) ==
    IF chunks = <<>> THEN <<>>
    ELSE IF StartsWith(chunks[1], SENTINEL_PREFIX)
    THEN ContentChunks(SubSeq(chunks, 2, Len(chunks)))
    ELSE <<chunks[1]>> \o ContentChunks(SubSeq(chunks, 2, Len(chunks)))

\* C35: when streamDefinition completes normally, the content chunks the
\* consumer received over the whole call are the fragments of the one
\* successful backend response, and the accumulated text is that response.
C35_OneCompleteResponse ==
    stream.outcome = "completed"
    => /\ ContentChunks(stream.yielded) = stream.got
       /\ stream.accumulated = Concat(stream.got)

\* The cache entries of definitions that a step wrote.
WrittenDefinitions ==
    {k \in DOMAIN sessionStorage' :
        /\ StartsWith(k, PREFIX \o KEY_DEFINITION)
        /\ (k \notin DOMAIN sessionStorage \/ sessionStorage'[k] # sessionStorage[k])}

\* The step is the end of the stream of fetch i, which writes entry k with
\* all that the fetch had accumulated.
CompletedWrite(i, k) ==
    /\ DefinitionEnds(i)
    /\ k = PREFIX \o app.fetches[i].definitionCacheKey
    /\ app.fetches[i].accumulated # <<>>
    /\ CachedDefinition(sessionStorage', app.fetches[i].definitionCacheKey)
           = app.fetches[i].accumulated
    /\ ~Includes(app.fetches[i].accumulated, SENTINEL_PREFIX)

\* A fetch that starts while the cache holds its definition shows the cached
\* text and opens no stream.
NoStreamOnHit ==
    \A i \in DOMAIN app'.fetches \ DOMAIN app.fetches :
        LET key == DefinitionCacheKey(getActiveModelId(localStorage), app'.fetches[i].topic)
        IN  CachedDefinition(sessionStorage, key) # <<>>
            => /\ app'.fetches[i].pc # "streaming"
               /\ app'.content = CachedDefinition(sessionStorage, key)

C34_StepAsStated ==
    /\ \A k \in WrittenDefinitions :
           \E i \in DOMAIN app.fetches :
               CompletedWrite(i, k) /\ ~app.fetches[i].isCancelled
    /\ NoStreamOnHit

\* C34 as stated: a definition entry is written only when streamDefinition has
\* finished without raising and the fetch was not cancelled, with the whole
\* accumulated text, which is not empty and holds no sentinel; a fetch whose
\* definition is cached opens no stream.
C34_CachedOnlyWhenLiveAndComplete == [][C34_StepAsStated]_vars

C34_Step ==
    /\ \A k \in WrittenDefinitions :
           \E i \in DOMAIN app.fetches : CompletedWrite(i, k)
    /\ NoStreamOnHit

\* C34: a definition entry is written only when streamDefinition has finished
\* without raising, with the whole accumulated text, which is not empty and
\* holds no sentinel, also when the fetch had been cancelled after its last
\* chunk; a fetch whose definition is cached opens no stream.
C34_CachedOnlyWhenComplete == [][C34_Step]_vars

C34_Witness ==
    /\ Len(app.fetches) = 2
    /\ app.fetches[2].pc = "ancillary"
    /\ app.fetches[2].accumulated = <<>>
    /\ app.content = <<"p">>
    /\ CachedDefinition(sessionStorage, app.fetches[2].definitionCacheKey) = <<"p">>


\* Fetch i calls generateAncillaryData in the step.
AncillaryCalled(i) ==
    /\ i \in DOMAIN app'.fetches
    /\ app'.fetches[i].ancillary # "none"
    /\ i \in DOMAIN app.fetches => app.fetches[i].ancillary = "none"

\* Fetch i obtains its definition in the step: from the cache as it starts, or
\* from its stream, which ends.
DefinitionObtained(i) ==
    IF i \in DOMAIN app.fetches
    THEN DefinitionEnds(i)
    ELSE CachedDefinition(sessionStorage,
                          DefinitionCacheKey(getActiveModelId(localStorage),
                                             app'.fetches[i].topic)) # <<>>

\* The definition of fetch i fails in the step: its stream throws, or there is
\* no key as it starts.
DefinitionFailed(i) ==
    IF i \in DOMAIN app.fetches
    THEN \E m \in AppFailures : DefinitionFails(i, m)
    ELSE /\ i \in DOMAIN app'.fetches
         /\ ~DefinitionObtained(i)
         /\ getApiKey(localStorage, envApiKey) = <<>>

C33_Step ==
    \A i \in 1..MaxFetches :
        /\ AncillaryCalled(i) => DefinitionObtained(i)
        /\ DefinitionFailed(i) => /\ app'.fetches[i].ancillary = "none"
                                  /\ ~app'.isAncillaryLoading

\* C33: a fetch calls generateAncillaryData only in the step in which it has
\* obtained its definition from the cache or from a stream that completed; when
\* its definition fails it calls nothing more and isAncillaryLoading is false.
C33_AncillaryAfterDefinition == [][C33_Step]_vars

\* The step hands a content chunk to a consumer that applies it, or ends the
\* stream of such a consumer without an error.
ContentApplied ==
    \/ \E i \in DOMAIN app.fetches :
           /\ ~app.fetches[i].isCancelled
           /\ DefinitionChunk(i, <<"p">>) \/ DefinitionEnds(i)
    \/ \E q \in DOMAIN app.asks : AskChunk(q, <<"p">>) \/ AskEnds(q)

\* C32: once a content chunk has arrived, and when the stream has completed,
\* the page shows no 'Rate limit ...' retry status, in the topic fetch and in
\* the file question.
C32_RetryStatusIsTransient ==
    [][ContentApplied => ~StartsWith(app'.error, STR_RATE_LIMIT)]_vars

\* The step resumes ask q: a chunk, a sentinel, the end or the failure of its
\* stream.
AskResumed(q) ==
    \/ AskChunk(q, <<"p">>)
    \/ \E delay \in AppDelays : AskSentinel(q, delay)
    \/ AskEnds(q)
    \/ \E m \in AppFailures : AskFails(q, m)

\* C31: when the file has been cleared while the answer to a question about it
\* was streaming, what remains of that answer changes neither the content, nor
\* the error, nor the loading state of the topic view.
C31_AnswerOfClearedFileIgnored ==
    [][\A q \in DOMAIN app.asks :
           (~app.file /\ AskResumed(q))
           => /\ app'.content = app.content
              /\ app'.error = app.error
              /\ app'.isLoading = app.isLoading]_vars

\* Nothing is pending: every fetch, question and deep dive has returned and
\* no file is being read.
Quiescent ==
    /\ app.mounted
    /\ ~app.reading
    /\ \A i \in DOMAIN app.fetches : app.fetches[i].pc = "ended"
    /\ \A q \in DOMAIN app.asks : app.asks[q].pc = "ended"
    /\ \A d \in DOMAIN app.dives : app.dives[d].pc = "ended"

\* C40: when nothing is pending any more, isLoading, isAncillaryLoading and
\* isDeepDiveLoading are false, so that the settings button is enabled.
C40_NoFlagStaysSet ==
    Quiescent => ~(app.isLoading \/ app.isAncillaryLoading \/ app.isDeepDiveLoading)

\* The cache entries of generateAncillaryData hold a document whose art is not
\* blank.
AncillaryEntriesValid ==
    \A k \in DOMAIN sessionStorage :
        StartsWith(k, PREFIX \o KEY_ANCILLARY)
        => /\ JsonParses(sessionStorage[k])
           /\ JsonParse(sessionStorage[k]) \in DOMAIN ArtOf
           /\ Trim(ArtOf[JsonParse(sessionStorage[k])]) # <<>>

\* A call that has thrown has written nothing.
ThrownStoredNothing ==
    \A c \in Slots : calls[c].outcome = "thrown" => calls[c].stored = "no"

\* An entry is written only in the step in which a call returns its result,
\* under the key of that call; the step in which a call throws leaves the
\* cache as it is.
C37_Step ==
    /\ \A k \in DOMAIN sessionStorage' :
           (StartsWith(k, PREFIX)
            /\ (k \notin DOMAIN sessionStorage \/ sessionStorage'[k] # sessionStorage[k]))
           => \E c \in Slots :
                  /\ calls[c].pc = "pending"
                  /\ calls'[c].outcome = "returned"
                  /\ k = PREFIX \o calls[c].cacheKey
                  /\ sessionStorage'[k] = JsonStringify(calls'[c].result)
    /\ \A c \in Slots :
           (calls'[c].outcome = "thrown" /\ calls[c].outcome # "thrown")
           => sessionStorage' = sessionStorage

\* C37: every entry under an 'ancillary_' key holds an art that is not blank
\* after trimming, and entries are written only by a generation that succeeds:
\* a call that throws, after any number of attempts, has written nothing.
C37_EntriesComeFromSuccess ==
    [](AncillaryEntriesValid /\ ThrownStoredNothing) /\ [][C37_Step]_vars

C37_Witness ==
    /\ \E k \in DOMAIN sessionStorage : StartsWith(k, PREFIX \o KEY_ANCILLARY)
    /\ \E c \in Slots :
           /\ calls[c].op = "ancillary"
           /\ calls[c].outcome = "thrown"
           /\ calls[c].attempt >= 1
           /\ Len(calls[c].text) > 0

\* The key of a call and the model of each of its requests come from the
\* model id the call read as it began.
OneModelPerCall ==
    \A c \in Slots :
        calls[c].pc # "idle"
        => /\ calls[c].cacheKey = CacheKey(calls[c].op, calls[c].modelId, calls[c].topic)
           /\ \A j \in DOMAIN calls[c].sentTo : calls[c].sentTo[j] = calls[c].modelId

\* A call that writes an entry writes it under the key of the model its last
\* request was addressed to.
C39_Step ==
    \A c \in Slots :
        (calls[c].pc = "pending" /\ calls'[c].outcome = "returned"
         /\ calls'[c].stored = "yes")
        => /\ calls[c].sentTo # <<>>
           /\ (PREFIX \o CacheKey(calls[c].op, calls[c].sentTo[Len(calls[c].sentTo)],
                                  calls[c].topic)) \in DOMAIN sessionStorage'
           /\ sessionStorage'[PREFIX \o CacheKey(calls[c].op,
                                                 calls[c].sentTo[Len(calls[c].sentTo)],
                                                 calls[c].topic)]
                  = JsonStringify(calls'[c].result)

\* C39: within one call the model id of the cache key and of the request of
\* every attempt is the same, also when the active model is changed during the
\* call; an entry is stored under the key of the model that produced it.
C39_EntryUnderModelOfRequest == [](OneModelPerCall) /\ [][C39_Step]_vars

C39_Witness ==
    \E c \in Slots :
        /\ Len(calls[c].sentTo) >= 2
        /\ calls[c].modelId # getActiveModelId(localStorage)
        /\ calls[c].outcome = "returned"
        /\ calls[c].stored = "yes"
        /\ CacheHas(sessionStorage, calls[c].cacheKey)

\* Call c was answered from the entry that call d had stored, and the request
\* of d was issued before the key was changed: with another key than the one
\* configured since, while d returned after the change.
HitOnEarlierRequest(c, d) ==
    /\ calls[c].outcome = "hit"
    /\ d \in calls[c].prior
    /\ calls[d].cacheKey = calls[c].cacheKey
    /\ calls[d].outcome = "returned"
    /\ calls[d].stored = "yes"
    /\ calls[c].result = calls[d].result
    /\ ~calls[d].cleared
    /\ changes > 0
    /\ calls[d].sentWith[Len(calls[d].sentWith)] # getApiKey(localStorage, envApiKey)

\* C38: after the API key was changed and the cache cleared with it, no cache
\* hit returns the result of a request that was issued before the change, also
\* when the call was in flight at the change and returned after it.
C38_NoHitOnEarlierRequest ==
    \A c \in Slots, d \in Slots : ~HitOnEarlierRequest(c, d)

=============================================================================
